---- MODULE Spec2Model ----
(***************************************************************************)
(* Manifest reconciliation engine of the data-kubeflow-integrator charm.   *)
(*                                                                         *)
(* Conventions                                                             *)
(*  - a Python str that the code inspects character-wise (credential       *)
(*    values, the profile) is a sequence of pieces; a piece is a text      *)
(*    fragment or the newline "\n"; "" is <<>>.  Two text fragments are    *)
(*    never adjacent, so equal strings have equal representations.         *)
(*  - names and dict keys are TLA+ strings; "a" \o "b" is concatenation.   *)
(*  - Optional[T] is a sequence of length 0 (None) or 1.                   *)
(*  - a dict is a sequence of [k, v] entries in insertion order.           *)
(*  - a KubernetesManifest is the model object handed to the template      *)
(*    (K8sSecretManifestInfo, K8sPodDefaultManifestInfo) or, for the spark *)
(*    bundle, the parsed document.                                         *)
(***************************************************************************)
EXTENDS Integers, Sequences, FiniteSets, TLC

VARIABLES
    config,      \* charm config: [profile |-> Optional[str]]
    relations,   \* names of the dispatcher relations that exist
    reldata,     \* backend |-> Optional[relation data of the backend]
    leader,      \* is this unit the leader
    channels,    \* dispatcher relation |-> manifests last written to it
    requests,    \* backend |-> Optional[request data this charm wrote to the relation]
    last         \* outcome of the last operation

vars == <<config, relations, reldata, leader, channels, requests, last>>

---------------------------------------------------------------------------
(* Bounds *)

MaxLen == 2          \* pieces in a tls-ca value
MaxProfileLen == 2   \* characters in a profile value
MaxDocs == 2         \* documents in a spark resource-manifest bundle

---------------------------------------------------------------------------
(* Generic helpers: Optional, dict *)

None == <<>>
Some(x) == <<x>>

RECURSIVE SeqsUpTo(_, _)
SeqsUpTo(S, n) ==
    IF n = 0 THEN {<<>>}
    ELSE LET shorter == SeqsUpTo(S, n - 1)
         IN  shorter \cup {Append(s, x) : s \in {t \in shorter : Len(t) = n - 1}, x \in S}

Keys(d) == {d[i].k : i \in 1..Len(d)}
Has(d, key) == key \in Keys(d)
Val(d, key) == d[CHOOSE i \in 1..Len(d) : d[i].k = key].v
Get(d, key) == IF Has(d, key) THEN Some(Val(d, key)) ELSE None
Pop(d, key) == SelectSeq(d, LAMBDA e : e.k # key)
Put(d, key, value) ==
    IF Has(d, key)
    THEN [i \in 1..Len(d) |-> IF d[i].k = key THEN [k |-> key, v |-> value] ELSE d[i]]
    ELSE Append(d, [k |-> key, v |-> value])

RECURSIVE Concat(_)
Concat(ss) == IF ss = <<>> THEN <<>> ELSE Head(ss) \o Concat(Tail(ss))

---------------------------------------------------------------------------
(* constants.py *)

POSTGRESQL == "postgresql"
MONGODB == "mongodb"
MYSQL == "mysql"
OPENSEARCH == "opensearch"
KAFKA == "kafka"
SPARK == "spark"

SECRETS_DISPATCHER_RELATION_NAME == "secrets"
SERVICE_ACCOUNTS_DISPATCHER_RELATION_NAME == "service-accounts"
POD_DEFAULTS_DISPATCHER_RELATION_NAME == "pod-defaults"
ROLES_DISPATCHER_RELATION_NAME == "roles"
ROLEBINDINGS_DISPATCHER_RELATION_NAME == "role-bindings"

K8S_TLS_SECRET_VOLUME == "tls-secret"
K8S_TLS_MOUNTPATH == "/etc/data-kubeflow-integrator"

Databases == {OPENSEARCH, POSTGRESQL, MYSQL, MONGODB, KAFKA}

K8S_DATABASE_SECRET_NAME == [b \in Databases \cup {SPARK} |-> b \o "-secret"]
K8S_DATABASE_TLS_SECRET_NAME == [b \in Databases |-> b \o "-tls-secret"]
K8S_DATABASE_PODDEFAULT_NAME == [b \in Databases \cup {SPARK} |-> b \o "-pod-default"]
SPARK_PIPELINE_PODDEFAULT_NAME == "pyspark-pipeline"
SPARK_NOTEBOOK_PODDEFAULT_NAME == "pyspark-notebook"

K8S_DATABASE_PODDEFAULT_DESC ==
    [b \in Databases \cup {SPARK} |->
        CASE b = POSTGRESQL -> "Postgresql Credentials"
          [] b = MONGODB -> "MongoDB Credentials"
          [] b = MYSQL -> "Mysql Credentials"
          [] b = OPENSEARCH -> "OpenSearch Credentials"
          [] b = KAFKA -> "Kafka Credentials"
          [] b = SPARK -> "Spark Service Account"]
SPARK_PIPELINE_PODDEFAULT_DESC == "Configure PySpark for Kubeflow pipelines"
SPARK_NOTEBOOK_PODDEFAULT_DESC == "pyspark-notebook"

K8S_DATABASE_PODDEFAULT_SELECTOR_LABEL == [b \in Databases \cup {SPARK} |-> "access-" \o b]

\* a credential value: the path is one text fragment
K8S_DATABASE_TLS_CERT_PATH ==
    [b \in Databases |-> <<K8S_TLS_MOUNTPATH \o "/" \o b \o "_ca.crt">>]

SPARK_DRIVER_PORT == 37371
SPARK_BLOCK_MANAGER_PORT == 6060

---------------------------------------------------------------------------
(* core/config.py, core/state.py: the profile *)

LOWER_ALNUM ==
    {"a", "b", "c", "d", "e", "f", "g", "h", "i", "j", "k", "l", "m", "n", "o", "p", "q",
     "r", "s", "t", "u", "v", "w", "x", "y", "z", "0", "1", "2", "3", "4", "5", "6", "7",
     "8", "9"}

\* PROFILE_REGEX = ^(\*|[a-z0-9]([-a-z0-9]*[a-z0-9])?)$ on a sequence of characters
PROFILE_REGEX(p) ==
    \/ p = <<"*">>
    \/ /\ Len(p) >= 1
       /\ p[1] \in LOWER_ALNUM
       /\ p[Len(p)] \in LOWER_ALNUM
       /\ \A i \in 1..Len(p) : p[i] \in LOWER_ALNUM \cup {"-"}

\* ProfileConfig(**config): the profile is required and must match the pattern
ProfileConfig(cfg) == cfg.profile # None /\ PROFILE_REGEX(cfg.profile[1])

\* variant: the profile is taken without validation
profile_config_Unvalidated(cfg) == IF cfg.profile # None THEN Some(cfg.profile[1]) ELSE None

\* GlobalState.profile_config: the validated config, None when validation raises
profile_config(cfg) == IF ProfileConfig(cfg) THEN Some(cfg.profile[1]) ELSE None

---------------------------------------------------------------------------
(* utils/k8s_models.py *)

ReconciledManifests(secrets, poddefaults, serviceaccounts, roles, role_bindings) ==
    [secrets |-> secrets, poddefaults |-> poddefaults, serviceaccounts |-> serviceaccounts,
     roles |-> roles, role_bindings |-> role_bindings]

EmptyManifests == ReconciledManifests(<<>>, <<>>, <<>>, <<>>, <<>>)

\* variant: the other batch's manifests come first
Add_OtherFirst(self, other) ==
    [secrets |-> other.secrets \o self.secrets,
     poddefaults |-> other.poddefaults \o self.poddefaults,
     serviceaccounts |-> other.serviceaccounts \o self.serviceaccounts,
     roles |-> other.roles \o self.roles,
     role_bindings |-> other.role_bindings \o self.role_bindings]

\* ReconciledManifests.__add__
Add(self, other) ==
    ReconciledManifests(
        self.secrets \o other.secrets,
        self.poddefaults \o other.poddefaults,
        self.serviceaccounts \o other.serviceaccounts,
        self.roles \o other.roles,
        self.role_bindings \o other.role_bindings)

K8sSecretManifestInfo(name, namespace, data) ==
    [kind |-> "Secret", name |-> name, namespace |-> namespace, data |-> data,
     labels |-> None]

EnvVarFromSecret(secret_name, secret_key) ==
    [secret_name |-> secret_name, secret_key |-> secret_key, optional |-> FALSE]

\* the fields of a PodDefaultEnvVar; value and secret default to None
PodDefaultEnvVar(name, value, secret) ==
    [name |-> name, value |-> value, secret |-> secret, fieldref |-> None]

\* Python truth of an Optional[str]: None and "" are false
Truthy(opt) == opt # None /\ opt[1] # <<>>

\* PodDefaultEnvVar.check_on_of: FALSE when the validator raises ValueError
check_on_of(env_var) == Truthy(env_var.value) \/ env_var.secret # None

PodDefaultSecretVolume(name, secret_name, mount_path) ==
    [name |-> name, secret_name |-> secret_name, mount_path |-> mount_path]

PodDefaultAnnotation(key, value) == [key |-> key, value |-> value]

K8sPodDefaultManifestInfo(name, namespace, desc, selector_name, env_vars, secret_volumes, annotations, args) ==
    [kind |-> "PodDefault", name |-> name, namespace |-> namespace, desc |-> desc,
     selector_name |-> selector_name, env_vars |-> env_vars,
     secret_volumes |-> secret_volumes, annotations |-> annotations, args |-> args]

---------------------------------------------------------------------------
(* utils/helpers_manifests.py *)

\* str.upper() on the names the code formats
upper(name) ==
    CASE name = "username" -> "USERNAME"
      [] name = "password" -> "PASSWORD"
      [] name = "database" -> "DATABASE"
      [] name = "index" -> "INDEX"
      [] name = "topic" -> "TOPIC"
      [] name = "tls-ca" -> "TLS-CA"
      [] name = "data" -> "DATA"
      [] name = "ca_cert_path" -> "CA_CERT_PATH"
      [] name = "SPARK_SERVICE_ACCOUNT" -> "SPARK_SERVICE_ACCOUNT"
      [] name = POSTGRESQL -> "POSTGRESQL"
      [] name = MONGODB -> "MONGODB"
      [] name = MYSQL -> "MYSQL"
      [] name = OPENSEARCH -> "OPENSEARCH"
      [] name = KAFKA -> "KAFKA"
      [] name = SPARK -> "SPARK"

\* base64.b64encode(value.encode()).decode("utf-8"): an injective encoding
b64encode(value) == <<"base64">> \o value

\* str.replace("\n", ""): the text fragments, joined
RECURSIVE JoinText(_)
JoinText(pieces) == IF pieces = <<>> THEN "" ELSE Head(pieces) \o JoinText(Tail(pieces))

RemoveNewlines(value) ==
    LET text == SelectSeq(value, LAMBDA piece : piece # "\n")
    IN  IF text = <<>> THEN <<>> ELSE <<JoinText(text)>>

\* variant: fields with an empty value are kept
format_credentials_data_KeepEmpty(data, database_name) ==
    [i \in 1..Len(data) |->
        [k |-> upper(database_name) \o "_" \o upper(data[i].k), v |-> b64encode(data[i].v)]]

format_credentials_data(data, database_name) ==
    LET kept == SelectSeq(data, LAMBDA e : e.v # <<>>)
    IN  [i \in 1..Len(kept) |->
            [k |-> upper(database_name) \o "_" \o upper(kept[i].k),
             v |-> b64encode(kept[i].v)]]

\* variant: the wildcard profile is used as a namespace like any other
Namespace_Verbatim(profile) == Some(profile)

\* the namespace of a rendered object
Namespace(profile) == IF profile = <<"*">> THEN None ELSE Some(profile)

\* variant: "disabled" is treated as a certificate
generate_tls_secret_manifest_NoSentinel(profile, creds, database_name) ==
    IF Truthy(Get(creds, "tls-ca"))
    THEN Some(K8sSecretManifestInfo(
                K8S_DATABASE_TLS_SECRET_NAME[database_name],
                IF profile = <<"*">> THEN None ELSE Some(profile),
                <<[k |-> database_name \o "_ca.crt", v |-> <<"base64">> \o Val(creds, "tls-ca")]>>))
    ELSE None

\* Optional[manifest]
generate_tls_secret_manifest(profile, creds, database_name) ==
    IF Truthy(Get(creds, "tls-ca")) /\ Val(creds, "tls-ca") # <<"disabled">>
    THEN Some(K8sSecretManifestInfo(
                K8S_DATABASE_TLS_SECRET_NAME[database_name],
                Namespace(profile),
                <<[k |-> database_name \o "_ca.crt", v |-> b64encode(Val(creds, "tls-ca"))]>>))
    ELSE None

generate_secret_manifest(profile, creds, database_name) ==
    K8sSecretManifestInfo(
        K8S_DATABASE_SECRET_NAME[database_name],
        Namespace(profile),
        format_credentials_data(creds, database_name))

\* variant: the env vars are inline literals whatever from_secret is
CredentialEnvVars_Literal(creds, database_name, from_secret) ==
    [i \in 1..Len(creds) |-> PodDefaultEnvVar(creds[i].k, Some(creds[i].v), None)]

\* variant: a secret reference is built for every field of the map, keyed by
\* the field's own name
CredentialEnvVars_RawKeys(creds, database_name, from_secret) ==
    IF from_secret # None
    THEN [i \in 1..Len(creds) |->
            PodDefaultEnvVar(creds[i].k, None,
                             Some(EnvVarFromSecret(from_secret[1], creds[i].k)))]
    ELSE [i \in 1..Len(creds) |-> PodDefaultEnvVar(creds[i].k, Some(creds[i].v), None)]

\* the env vars built from the credentials (lines 106-120), before validation
CredentialEnvVars(creds, database_name, from_secret) ==
    IF from_secret # None
    THEN LET formatted_data == format_credentials_data(creds, database_name)
         IN  [i \in 1..Len(formatted_data) |->
                PodDefaultEnvVar(formatted_data[i].k, None,
                                 Some(EnvVarFromSecret(from_secret[1], formatted_data[i].k)))]
    ELSE [i \in 1..Len(creds) |-> PodDefaultEnvVar(creds[i].k, Some(creds[i].v), None)]

\* the caller's creds after the call: a literal tls-ca loses its newlines in place
CredsAfterPodDefault(creds, from_secret) ==
    IF from_secret = None /\ Truthy(Get(creds, "tls-ca"))
    THEN Put(creds, "tls-ca", RemoveNewlines(Val(creds, "tls-ca")))
    ELSE creds

\* an env var whose source is a field reference (EnvVarFromField)
FieldRefEnvVar(name, field_path) ==
    [name |-> name, value |-> None, secret |-> None, fieldref |-> Some(field_path)]

\* the selector label: the one the caller names, else the backend's
SelectorLabel(selector_name, database_name) ==
    IF selector_name # None THEN selector_name[1]
    ELSE K8S_DATABASE_PODDEFAULT_SELECTOR_LABEL[database_name]

\* [raised, manifest, creds]: raised when an env var fails check_on_of
generate_poddefault_manifest(profile, creds, database_name, from_secret, tls_secret, poddefault_name, poddefault_description, annotations, args, fieldrefs, selector_name) ==
    LET poddefault_secret_volumes ==
            IF tls_secret # None
            THEN Some(<<PodDefaultSecretVolume(K8S_TLS_SECRET_VOLUME, tls_secret[1], K8S_TLS_MOUNTPATH)>>)
            ELSE None
        creds_after == CredsAfterPodDefault(creds, from_secret)
        credential_env_vars == CredentialEnvVars(creds_after, database_name, from_secret)
        poddefault_annotations ==
            IF annotations # <<>>
            THEN Some([i \in 1..Len(annotations) |-> PodDefaultAnnotation(annotations[i].k, annotations[i].v)])
            ELSE None
        fieldref_env_vars == [i \in 1..Len(fieldrefs) |-> FieldRefEnvVar(fieldrefs[i].k, fieldrefs[i].v)]
        raised == \E i \in 1..Len(credential_env_vars) : ~check_on_of(credential_env_vars[i])
    IN  [raised |-> raised,
         creds |-> creds_after,
         manifest |->
            K8sPodDefaultManifestInfo(
                IF poddefault_name # None THEN poddefault_name[1] ELSE K8S_DATABASE_PODDEFAULT_NAME[database_name],
                Namespace(profile),
                IF poddefault_description # None THEN poddefault_description[1] ELSE K8S_DATABASE_PODDEFAULT_DESC[database_name],
                SelectorLabel(selector_name, database_name),
                credential_env_vars \o fieldref_env_vars,
                poddefault_secret_volumes,
                poddefault_annotations,
                args)]

---------------------------------------------------------------------------
(* managers/manifests.py *)

is_k8s_secrets_manifests_related(rels) == SECRETS_DISPATCHER_RELATION_NAME \in rels
is_k8s_poddefaults_manifests_related(rels) == POD_DEFAULTS_DISPATCHER_RELATION_NAME \in rels
is_k8s_service_accounts_manifests_related(rels) == SERVICE_ACCOUNTS_DISPATCHER_RELATION_NAME \in rels
is_k8s_roles_manifests_related(rels) == ROLES_DISPATCHER_RELATION_NAME \in rels
is_k8s_rolebindings_manifests_related(rels) == ROLEBINDINGS_DISPATCHER_RELATION_NAME \in rels

is_manifests_provider_related(rels) ==
    \/ is_k8s_poddefaults_manifests_related(rels)
    \/ is_k8s_secrets_manifests_related(rels)
    \/ is_k8s_service_accounts_manifests_related(rels)
    \/ is_k8s_roles_manifests_related(rels)
    \/ is_k8s_rolebindings_manifests_related(rels)

\* the outcome of a call: raised, the batch returned, the caller's creds afterwards
Outcome(raised, batch, creds) == [raised |-> raised, batch |-> batch, creds |-> creds]

\* variant: ca_cert_path is added and tls-ca is kept
WithCertPath_KeepTlsCa(creds, database_name) ==
    Put(creds, "ca_cert_path", K8S_DATABASE_TLS_CERT_PATH[database_name])

\* creds with the path of the mounted CA in place of tls-ca (lines 98-100, 113-114)
WithCertPath(creds, database_name) ==
    Pop(Put(creds, "ca_cert_path", K8S_DATABASE_TLS_CERT_PATH[database_name]), "tls-ca")

reconcile_database_manifests(cfg, rels, creds, database_name) ==
    IF profile_config(cfg) = None
    THEN Outcome(FALSE, EmptyManifests, creds)
    ELSE
    LET profile == profile_config(cfg)[1]
        creds1 == Pop(creds, "data")
        secrets == is_k8s_secrets_manifests_related(rels)
        tls_secret ==
            IF secrets THEN generate_tls_secret_manifest(profile, creds1, database_name) ELSE None
        secret_data ==
            IF tls_secret # None THEN WithCertPath(creds1, database_name) ELSE creds1
        database_secret ==
            IF secrets THEN Some(generate_secret_manifest(profile, secret_data, database_name))
            ELSE None
        secrets_manifests == tls_secret \o database_secret
        creds2 == IF tls_secret # None THEN WithCertPath(creds1, database_name) ELSE creds1
        poddefault ==
            generate_poddefault_manifest(
                profile, creds2, database_name,
                IF database_secret # None THEN Some(K8S_DATABASE_SECRET_NAME[database_name]) ELSE None,
                IF tls_secret # None THEN Some(K8S_DATABASE_TLS_SECRET_NAME[database_name]) ELSE None,
                None, None, <<>>, None, <<>>, None)
    IN  IF ~is_k8s_poddefaults_manifests_related(rels)
        THEN Outcome(FALSE, ReconciledManifests(secrets_manifests, <<>>, <<>>, <<>>, <<>>), creds1)
        ELSE IF poddefault.raised
        THEN Outcome(TRUE, EmptyManifests, poddefault.creds)
        ELSE Outcome(FALSE,
                     ReconciledManifests(secrets_manifests, <<poddefault.manifest>>, <<>>, <<>>, <<>>),
                     poddefault.creds)

\* a document of the bundle is a record; "kind" and "subjects" may be missing
HasKey(res, key) == key \in DOMAIN res

\* variant: the subject is passed as received
PatchSubject_AsReceived(subject) == subject

\* one subject, its namespace replaced by the placeholder when it has one
PatchSubject(subject) ==
    IF HasKey(subject, "namespace") THEN [subject EXCEPT !.namespace = "{{ NAMESPACE }}"]
    ELSE subject

_patch_rolebinding_subject_namespace(rolebinding) ==
    IF ~HasKey(rolebinding, "subjects") \/ Len(rolebinding.subjects) = 0
    THEN rolebinding
    ELSE [rolebinding EXCEPT
            !.subjects = [i \in 1..Len(rolebinding.subjects) |-> PatchSubject(rolebinding.subjects[i])]]

\* [res for res in manifest_yaml if res["kind"] == kind]
OfKind(manifest_yaml, kind) == SelectSeq(manifest_yaml, LAMBDA res : res.kind = kind)

SparkPodDefaultArgs ==
    <<"--namespace", "$SPARK_NAMESPACE", "--username", "$SPARK_SERVICE_ACCOUNT",
      "--conf", "spark.driver.port=" \o ToString(SPARK_DRIVER_PORT),
      "--conf", "spark.blockManager.port=" \o ToString(SPARK_BLOCK_MANAGER_PORT)>>

SparkPorts == ToString(SPARK_DRIVER_PORT) \o "," \o ToString(SPARK_BLOCK_MANAGER_PORT)

SparkPodDefaultAnnotations ==
    <<[k |-> "traffic.sidecar.istio.io/excludeInboundPorts", v |-> SparkPorts],
      [k |-> "traffic.sidecar.istio.io/excludeOutboundPorts", v |-> SparkPorts]>>

\* labels of the two spark PodDefaults
SPARK_PIPELINE_PODDEFAULT_SELECTOR_LABEL == "access-spark-pipeline"
SPARK_NOTEBOOK_PODDEFAULT_SELECTOR_LABEL == "access-spark-notebook"

\* raw_manifests is [parseable, docs]: yaml.safe_load_all raises on an unparseable stream
reconcile_spark_manifests(cfg, rels, raw_manifests, service_account) ==
    IF profile_config(cfg) = None
    THEN Outcome(FALSE, EmptyManifests, <<>>)
    ELSE
    LET profile == profile_config(cfg)[1]
        manifest_yaml == raw_manifests.docs
        partitioned ==
            \/ is_k8s_secrets_manifests_related(rels)
            \/ is_k8s_service_accounts_manifests_related(rels)
            \/ is_k8s_roles_manifests_related(rels)
            \/ is_k8s_rolebindings_manifests_related(rels)
        key_error ==
            partitioned /\ \E i \in 1..Len(manifest_yaml) : ~HasKey(manifest_yaml[i], "kind")
        rolebindings == OfKind(manifest_yaml, "RoleBinding")
        sa_creds == <<[k |-> "SPARK_SERVICE_ACCOUNT", v |-> service_account]>>
        fieldrefs == <<[k |-> "SPARK_NAMESPACE", v |-> "metadata.namespace"]>>
        spark_pipeline_poddefault ==
            generate_poddefault_manifest(
                profile, sa_creds, SPARK, None, None,
                Some(SPARK_PIPELINE_PODDEFAULT_NAME), Some(SPARK_PIPELINE_PODDEFAULT_DESC),
                <<>>, None, fieldrefs, Some(SPARK_PIPELINE_PODDEFAULT_SELECTOR_LABEL))
        spark_notebook_poddefault ==
            generate_poddefault_manifest(
                profile, sa_creds, SPARK, None, None,
                Some(SPARK_NOTEBOOK_PODDEFAULT_NAME), Some(SPARK_NOTEBOOK_PODDEFAULT_DESC),
                SparkPodDefaultAnnotations, Some(SparkPodDefaultArgs), fieldrefs,
                Some(SPARK_NOTEBOOK_PODDEFAULT_SELECTOR_LABEL))
    IN  IF \/ ~raw_manifests.parseable
           \/ key_error
           \/ spark_pipeline_poddefault.raised
           \/ spark_notebook_poddefault.raised
        THEN Outcome(TRUE, EmptyManifests, <<>>)
        ELSE Outcome(FALSE,
                ReconciledManifests(
                    IF is_k8s_secrets_manifests_related(rels)
                        THEN OfKind(manifest_yaml, "Secret") ELSE <<>>,
                    IF is_k8s_poddefaults_manifests_related(rels)
                        THEN <<spark_pipeline_poddefault.manifest, spark_notebook_poddefault.manifest>>
                        ELSE <<>>,
                    IF is_k8s_service_accounts_manifests_related(rels)
                        THEN OfKind(manifest_yaml, "ServiceAccount") ELSE <<>>,
                    IF is_k8s_roles_manifests_related(rels)
                        THEN OfKind(manifest_yaml, "Role") ELSE <<>>,
                    IF is_k8s_rolebindings_manifests_related(rels)
                        THEN [i \in 1..Len(rolebindings) |->
                                _patch_rolebinding_subject_namespace(rolebindings[i])]
                        ELSE <<>>),
                <<>>)

---------------------------------------------------------------------------
(* managers/kafka.py, database.py, opensearch.py, spark.py *)
(* the relation data of a backend is None without a relation, else Some(data) *)

\* is_kafka_related, is_database_related, is_opensearch_related
is_related(data) ==
    data # None /\ \A key \in {"username", "password"} : Truthy(Get(data[1], key))

\* topic_active, database_active, index_active: the field the backend reports
active(data, field) == data # None /\ Truthy(Get(data[1], field))

\* the renderer the database and opensearch managers call, with the backend's name
reconcile_opensearch_manifests(cfg, rels, creds, database_name) ==
    reconcile_database_manifests(cfg, rels, creds, database_name)

\* variant: the topic the relation reports is not looked at
kafka_generate_manifests_TopicUnchecked(cfg, rels, data) ==
    IF is_related(data)
    THEN reconcile_database_manifests(cfg, rels, data[1], KAFKA)
    ELSE Outcome(FALSE, EmptyManifests, <<>>)

kafka_generate_manifests(cfg, rels, data) ==
    IF is_related(data) /\ active(data, "topic")
    THEN reconcile_database_manifests(cfg, rels, data[1], KAFKA)
    ELSE Outcome(FALSE, EmptyManifests, <<>>)

database_generate_manifests(cfg, rels, data, database_name) ==
    IF is_related(data) /\ active(data, "database")
    THEN reconcile_opensearch_manifests(cfg, rels, data[1], database_name)
    ELSE Outcome(FALSE, EmptyManifests, <<>>)

opensearch_generate_manifests(cfg, rels, data) ==
    IF is_related(data) /\ active(data, "index")
    THEN reconcile_opensearch_manifests(cfg, rels, data[1], OPENSEARCH)
    ELSE Outcome(FALSE, EmptyManifests, <<>>)

\* spark relation data: [service_account, resource_manifest, spark_properties]
is_spark_related(data) ==
    /\ data # None
    /\ data[1].service_account # <<>>
    /\ data[1].resource_manifest # None
    /\ data[1].spark_properties # <<>>

service_account_active(data) == data # None /\ data[1].service_account # <<>>

\* str.split(":") on a string of text fragments and ":" separators
RECURSIVE split(_)
split(value) ==
    IF \A i \in 1..Len(value) : value[i] # ":"
    THEN <<value>>
    ELSE LET i == CHOOSE j \in 1..Len(value) :
                    value[j] = ":" /\ \A h \in 1..(j - 1) : value[h] # ":"
         IN  <<SubSeq(value, 1, i - 1)>> \o split(SubSeq(value, i + 1, Len(value)))

\* variant: the part before the colon is taken as the service account
spark_generate_manifests_NamespacePart(cfg, rels, data) ==
    IF is_spark_related(data) /\ service_account_active(data)
    THEN LET parts == split(data[1].service_account)
         IN  IF Len(parts) # 2
             THEN Outcome(TRUE, EmptyManifests, <<>>)
             ELSE reconcile_spark_manifests(cfg, rels, data[1].resource_manifest[1], parts[1])
    ELSE Outcome(FALSE, EmptyManifests, <<>>)

\* unpacking into (namespace, service_account) raises unless there are two parts
spark_generate_manifests(cfg, rels, data) ==
    IF is_spark_related(data) /\ service_account_active(data)
    THEN LET parts == split(data[1].service_account)
         IN  IF Len(parts) # 2
             THEN Outcome(TRUE, EmptyManifests, <<>>)
             ELSE reconcile_spark_manifests(cfg, rels, data[1].resource_manifest[1], parts[2])
    ELSE Outcome(FALSE, EmptyManifests, <<>>)

---------------------------------------------------------------------------
(* core/statuses.py: the status objects *)

StatusObject(status, message, action) == [status |-> status, message |-> message, action |-> action]

ACTIVE_IDLE == StatusObject("active", "", "")

missing_integration_with_opensearch ==
    StatusObject("blocked", "Missing relation with: OpenSearch", "Integrate with an OpenSearch Charm")
missing_integration_with_mysql ==
    StatusObject("blocked", "Missing relation with: Mysql", "Integrate with a Mysql Charm")
missing_integration_with_postgresql ==
    StatusObject("blocked", "Missing relation with: Postgresql", "Integrate with a Postgresql Charm")
missing_integration_with_mongodb ==
    StatusObject("blocked", "Missing relation with: Mongodb", "Integrate with a Mongodb Charm")
missing_integration_with_kafka ==
    StatusObject("blocked", "Missing relation with: Kafka", "Integrate with a Kafka Charm")

\* ", ".join(f"'{field}'" for field in fields)
RECURSIVE fields_str(_)
fields_str(fields) ==
    IF fields = <<>> THEN ""
    ELSE IF Len(fields) = 1 THEN "'" \o fields[1] \o "'"
    ELSE "'" \o fields[1] \o "', " \o fields_str(Tail(fields))

missing_config_parameters(fields) ==
    StatusObject("blocked", "Missing config(s): " \o fields_str(fields),
                 "Set config(s): " \o fields_str(fields))

invalid_config_parameters(fields) ==
    StatusObject("blocked", "Invalid config(s): " \o fields_str(fields),
                 "Fix invalid config(s): " \o fields_str(fields))

---------------------------------------------------------------------------
(* core/config.py: validation of the charm config, an option being None when *)
(* it is unset and a sequence of characters when it is set.  The result of a *)
(* config class is the list of pydantic errors, as (type, location) pairs;   *)
(* the extra-user-roles and consumer-group-prefix options are optional       *)
(* strings and never produce an error.                                       *)

nullify_empty_string(in_str) == IF in_str = <<>> THEN None ELSE Some(in_str)

\* KafkaRequires.is_topic_value_acceptable: no wildcard in the first three characters
is_topic_value_acceptable(topic) == \A i \in 1..Len(topic) : i <= 3 => topic[i] # "*"

\* validate_topic_name raises ValueError on an unacceptable topic
validate_topic_name_raises(topic) == topic # None /\ ~is_topic_value_acceptable(topic[1])

Error(type, loc) == [type |-> type, loc |-> loc]

\* variant: the pattern of the profile is not checked
ProfileConfigErrors_PatternUnchecked(cfg) ==
    IF cfg["profile"] = None THEN <<Error("missing", "profile")>> ELSE <<>>

\* profile: str = Field(pattern=PROFILE_REGEX), required
ProfileConfigErrors(cfg) ==
    IF cfg["profile"] = None THEN <<Error("missing", "profile")>>
    ELSE IF ~PROFILE_REGEX(cfg["profile"][1]) THEN <<Error("string_pattern_mismatch", "profile")>>
    ELSE <<>>

\* index_name: Annotated[str, BeforeValidator(nullify_empty_string)], required
OpenSearchConfigErrors(cfg) ==
    IF cfg["opensearch-index-name"] = None THEN <<Error("missing", "opensearch-index-name")>>
    ELSE IF nullify_empty_string(cfg["opensearch-index-name"][1]) = None
         THEN <<Error("string_type", "opensearch-index-name")>>
    ELSE <<>>

\* topic_name: Annotated[str | None, BeforeValidator(nullify_empty_string),
\* AfterValidator(validate_topic_name)], required
KafkaConfigErrors(cfg) ==
    IF cfg["kafka-topic-name"] = None THEN <<Error("missing", "kafka-topic-name")>>
    ELSE IF validate_topic_name_raises(nullify_empty_string(cfg["kafka-topic-name"][1]))
         THEN <<Error("value_error", "kafka-topic-name")>>
    ELSE <<>>

\* <field>: Annotated[str | None, BeforeValidator(nullify_empty_string)], required
OptionalStrErrors(cfg, option) ==
    IF cfg[option] = None THEN <<Error("missing", option)>> ELSE <<>>

MongoDbConfigErrors(cfg) == OptionalStrErrors(cfg, "mongodb-database-name")
MysqlConfigErrors(cfg) == OptionalStrErrors(cfg, "mysql-database-name")
PostgresqlConfigErrors(cfg) == OptionalStrErrors(cfg, "postgresql-database-name")
SparkConfigErrors(cfg) == OptionalStrErrors(cfg, "spark-service-account")

---------------------------------------------------------------------------
(* get_statuses of the managers and the StatusHandler of charm.py *)

Locs(errors) == [i \in 1..Len(errors) |-> errors[i].loc]

\* [str(error["loc"][0]) for error in err.errors() if error["type"] == "missing"]
MissingOf(errors) == Locs(SelectSeq(errors, LAMBDA e : e.type = "missing"))
\* [str(error["loc"][0]) for error in err.errors() if error["type"] != "missing"]
InvalidOf(errors) == Locs(SelectSeq(errors, LAMBDA e : e.type # "missing"))

\* the statuses appended for a ValidationError
ConfigStatusesOf(errors) ==
    (IF MissingOf(errors) # <<>> THEN <<missing_config_parameters(MissingOf(errors))>> ELSE <<>>)
    \o (IF InvalidOf(errors) # <<>> THEN <<invalid_config_parameters(InvalidOf(errors))>> ELSE <<>>)

\* status_list or [CharmStatuses.ACTIVE_IDLE.value]
OrActive(status_list) == IF status_list # <<>> THEN status_list ELSE <<ACTIVE_IDLE>>

\* the config statuses are appended only if len(requirer.relations) > 0; the
\* missing integration only if the config validated and no relation shares
\* credentials
kafka_get_statuses(scope, cfg, data) ==
    IF scope = "app"
    THEN OrActive(
            (IF KafkaConfigErrors(cfg) # <<>> /\ data # None
             THEN ConfigStatusesOf(KafkaConfigErrors(cfg)) ELSE <<>>)
            \o (IF KafkaConfigErrors(cfg) = <<>> /\ ~is_related(data)
                THEN <<missing_integration_with_kafka>> ELSE <<>>))
    ELSE <<ACTIVE_IDLE>>

opensearch_get_statuses(scope, cfg, data) ==
    OrActive(
        (IF OpenSearchConfigErrors(cfg) # <<>> /\ data # None
         THEN ConfigStatusesOf(OpenSearchConfigErrors(cfg)) ELSE <<>>)
        \o (IF OpenSearchConfigErrors(cfg) = <<>> /\ ~is_related(data)
            THEN <<missing_integration_with_opensearch>> ELSE <<>>))

mysql_get_statuses(scope, cfg, data) ==
    IF scope = "app"
    THEN OrActive(
            (IF MysqlConfigErrors(cfg) # <<>> /\ data # None
             THEN ConfigStatusesOf(MysqlConfigErrors(cfg)) ELSE <<>>)
            \o (IF MysqlConfigErrors(cfg) = <<>> /\ ~is_related(data)
                THEN <<missing_integration_with_mysql>> ELSE <<>>))
    ELSE <<ACTIVE_IDLE>>

postgresql_get_statuses(scope, cfg, data) ==
    IF scope = "app"
    THEN OrActive(
            (IF PostgresqlConfigErrors(cfg) # <<>> /\ data # None
             THEN ConfigStatusesOf(PostgresqlConfigErrors(cfg)) ELSE <<>>)
            \o (IF PostgresqlConfigErrors(cfg) = <<>> /\ ~is_related(data)
                THEN <<missing_integration_with_postgresql>> ELSE <<>>))
    ELSE <<ACTIVE_IDLE>>

\* variant: the missing integration is appended whatever the config
mongodb_get_statuses_AlwaysMissingRelation(scope, cfg, data) ==
    OrActive(
        (IF MongoDbConfigErrors(cfg) # <<>> /\ data # None
         THEN ConfigStatusesOf(MongoDbConfigErrors(cfg)) ELSE <<>>)
        \o (IF ~is_related(data) THEN <<missing_integration_with_mongodb>> ELSE <<>>))

mongodb_get_statuses(scope, cfg, data) ==
    OrActive(
        (IF MongoDbConfigErrors(cfg) # <<>> /\ data # None
         THEN ConfigStatusesOf(MongoDbConfigErrors(cfg)) ELSE <<>>)
        \o (IF MongoDbConfigErrors(cfg) = <<>> /\ ~is_related(data)
            THEN <<missing_integration_with_mongodb>> ELSE <<>>))

\* the missing integration the spark manager appends is the one of kafka
spark_get_statuses(scope, cfg, data) ==
    IF scope = "app"
    THEN OrActive(
            (IF SparkConfigErrors(cfg) # <<>> /\ data # None
             THEN ConfigStatusesOf(SparkConfigErrors(cfg)) ELSE <<>>)
            \o (IF SparkConfigErrors(cfg) = <<>> /\ ~is_spark_related(data)
                THEN <<missing_integration_with_kafka>> ELSE <<>>))
    ELSE <<ACTIVE_IDLE>>

\* KubernetesManifestsManager.get_statuses: the profile, whatever the relations
manifests_get_statuses(scope, cfg) == OrActive(ConfigStatusesOf(ProfileConfigErrors(cfg)))

\* the spark manager that events/general.py reaches as charm.spark_manager,
\* registered with the StatusHandler after the managers charm.py registers
SparkStatusComponent(cfg, rd) ==
    <<[component |-> SPARK, statuses |-> spark_get_statuses("app", cfg, rd[6])]>>

\* charm.py: the statuses the StatusHandler collects for the application, per
\* registered manager in priority order
StatusHandler(cfg, rd) ==
    <<[component |-> "manifests", statuses |-> manifests_get_statuses("app", cfg)],
      [component |-> KAFKA, statuses |-> kafka_get_statuses("app", cfg, rd[5])],
      [component |-> OPENSEARCH, statuses |-> opensearch_get_statuses("app", cfg, rd[1])],
      [component |-> MYSQL, statuses |-> mysql_get_statuses("app", cfg, rd[3])],
      [component |-> POSTGRESQL, statuses |-> postgresql_get_statuses("app", cfg, rd[2])],
      [component |-> MONGODB, statuses |-> mongodb_get_statuses("app", cfg, rd[4])]>>
    \o SparkStatusComponent(cfg, rd)

---------------------------------------------------------------------------
(* managers/manifests.py send_manifests, events/general.py *)

ChannelOf(batch, relation) ==
    CASE relation = SECRETS_DISPATCHER_RELATION_NAME -> batch.secrets
      [] relation = POD_DEFAULTS_DISPATCHER_RELATION_NAME -> batch.poddefaults
      [] relation = SERVICE_ACCOUNTS_DISPATCHER_RELATION_NAME -> batch.serviceaccounts
      [] relation = ROLES_DISPATCHER_RELATION_NAME -> batch.roles
      [] relation = ROLEBINDINGS_DISPATCHER_RELATION_NAME -> batch.role_bindings

\* variant: every channel is written, an empty one included
send_manifests_AlwaysWrites(written, reconciled_manifests) ==
    [relation \in DOMAIN written |-> ChannelOf(reconciled_manifests, relation)]

\* the relation databags after send_manifests: an empty channel is not written
send_manifests(written, reconciled_manifests) ==
    [relation \in DOMAIN written |->
        IF Len(ChannelOf(reconciled_manifests, relation)) > 0
        THEN ChannelOf(reconciled_manifests, relation)
        ELSE written[relation]]

\* the six generate_manifests results, in the order the handler calls them
GenerateAll(cfg, rels, data) ==
    <<opensearch_generate_manifests(cfg, rels, data[1]),
      database_generate_manifests(cfg, rels, data[2], POSTGRESQL),
      database_generate_manifests(cfg, rels, data[3], MYSQL),
      database_generate_manifests(cfg, rels, data[4], MONGODB),
      kafka_generate_manifests(cfg, rels, data[5]),
      spark_generate_manifests(cfg, rels, data[6])>>

\* variant: the spark batch is added before the kafka batch
SumManifests_SparkFirst(reconciled_manifests, generated) ==
    Add(Add(Add(Add(Add(Add(reconciled_manifests,
        generated[1].batch), generated[2].batch), generated[3].batch),
        generated[4].batch), generated[6].batch), generated[5].batch)

\* reconciled_manifests + opensearch + postgresql + mysql + mongodb + kafka + spark
SumManifests(reconciled_manifests, generated) ==
    Add(Add(Add(Add(Add(Add(reconciled_manifests,
        generated[1].batch), generated[2].batch), generated[3].batch),
        generated[4].batch), generated[5].batch), generated[6].batch)

\* [ran, raised, sent, channels] given what the six generate_manifests calls
\* yield: ran is FALSE on a non-leader; the managers are called only when a
\* dispatcher relation exists, and an exception of one of them leaves the
\* handler before send_manifests
_on_manifests_relation_change(rels, generated, is_leader, written) ==
    IF ~is_leader
    THEN [ran |-> FALSE, raised |-> FALSE, sent |-> EmptyManifests, channels |-> written]
    ELSE IF ~is_manifests_provider_related(rels)
    THEN [ran |-> TRUE, raised |-> FALSE, sent |-> EmptyManifests,
          channels |-> send_manifests(written, EmptyManifests)]
    ELSE IF \E i \in 1..Len(generated) : generated[i].raised
    THEN [ran |-> TRUE, raised |-> TRUE, sent |-> EmptyManifests, channels |-> written]
    ELSE [ran |-> TRUE, raised |-> FALSE, sent |-> SumManifests(EmptyManifests, generated),
          channels |-> send_manifests(written, SumManifests(EmptyManifests, generated))]

---------------------------------------------------------------------------
(* Inputs *)

Backends == <<OPENSEARCH, POSTGRESQL, MYSQL, MONGODB, KAFKA, SPARK>>

Dispatchers ==
    {SECRETS_DISPATCHER_RELATION_NAME, POD_DEFAULTS_DISPATCHER_RELATION_NAME,
     SERVICE_ACCOUNTS_DISPATCHER_RELATION_NAME, ROLES_DISPATCHER_RELATION_NAME,
     ROLEBINDINGS_DISPATCHER_RELATION_NAME}

\* profile values: unset, or a string over these characters
ProfileChars == {"a", "-", "*"}
Configs == {[profile |-> None]} \cup {[profile |-> Some(p)] : p \in SeqsUpTo(ProfileChars, MaxProfileLen)}

\* a string never has two adjacent text fragments
Canonical(value) == \A i \in 1..(Len(value) - 1) : value[i] = "\n" \/ value[i + 1] = "\n"

TlsValues == {v \in SeqsUpTo({"CERT", "\n"}, MaxLen) : Canonical(v)} \cup {<<"disabled">>}

ValuesOf(key) ==
    CASE key = "tls-ca" -> TlsValues
      [] key = "data" -> {<<"{}">>}
      [] OTHER -> {<<>>, <<"a-" \o key>>}

CredKeys == <<"username", "password", "tls-ca", "data">>

\* the dicts whose keys are a subsequence of keys, in that order
RECURSIVE DictsOver(_)
DictsOver(keys) ==
    IF keys = <<>> THEN {<<>>}
    ELSE LET rest == DictsOver(Tail(keys))
         IN  rest \cup {<<[k |-> Head(keys), v |-> v]>> \o d : v \in ValuesOf(Head(keys)), d \in rest}

CredMaps == DictsOver(CredKeys)

Subjects == {<<>>, <<[kind |-> "ServiceAccount", name |-> "spark", namespace |-> "ns-x"]>>}

DocSamples ==
    {[kind |-> "Secret", name |-> "kafka-secret"],
     [kind |-> "ServiceAccount", name |-> "spark"],
     [kind |-> "Role", name |-> "spark-role"],
     [kind |-> "ConfigMap", name |-> "spark-config"],
     [name |-> "no-kind"]}
    \cup {[kind |-> "RoleBinding", name |-> "spark-role-binding", subjects |-> s] : s \in Subjects}

Bundles ==
    {[parseable |-> FALSE, docs |-> <<>>]}
    \cup {[parseable |-> TRUE, docs |-> d] : d \in SeqsUpTo(DocSamples, MaxDocs)}

ServiceAccounts == {<<>>, <<"spark">>}

NoRelData == [i \in 1..Len(Backends) |-> None]
NoRequests == [i \in 1..Len(Backends) |-> None]
NoChannels == [r \in Dispatchers |-> <<>>]

---------------------------------------------------------------------------
(* Spec: one call of a renderer, for every config, every set of dispatcher     *)
(* relations and every input                                                 *)

Init ==
    /\ config \in Configs
    /\ relations \in SUBSET Dispatchers
    /\ reldata = NoRelData
    /\ leader = TRUE
    /\ channels = NoChannels
    /\ requests = NoRequests
    /\ last = [op |-> "init"]

ReconcileDatabase ==
    /\ last.op = "init"
    /\ \E creds \in CredMaps, database_name \in Databases :
        last' = [op |-> "reconcile_database_manifests",
                 creds |-> creds,
                 database_name |-> database_name,
                 out |-> reconcile_database_manifests(config, relations, creds, database_name)]
    /\ UNCHANGED <<config, relations, reldata, leader, channels, requests>>

ReconcileSpark ==
    /\ last.op = "init"
    /\ \E raw_manifests \in Bundles, service_account \in ServiceAccounts :
        last' = [op |-> "reconcile_spark_manifests",
                 raw_manifests |-> raw_manifests,
                 service_account |-> service_account,
                 out |-> reconcile_spark_manifests(config, relations, raw_manifests, service_account)]
    /\ UNCHANGED <<config, relations, reldata, leader, channels, requests>>

Next == ReconcileDatabase \/ ReconcileSpark

Spec == Init /\ [][Next]_vars

---------------------------------------------------------------------------
(* SpecTwice: a renderer call followed by a second call that is handed the    *)
(* same dict object, which the first call may have changed in place          *)

ReconcileDatabaseAgain ==
    /\ last.op = "reconcile_database_manifests"
    /\ ~last.out.raised
    /\ last' = [op |-> "reconcile_database_manifests twice",
                creds |-> last.creds,
                database_name |-> last.database_name,
                first |-> last.out,
                second |-> reconcile_database_manifests(config, relations, last.out.creds,
                                                        last.database_name)]
    /\ UNCHANGED <<config, relations, reldata, leader, channels, requests>>

NextTwice == ReconcileDatabase \/ ReconcileDatabaseAgain

SpecTwice == Init /\ [][NextTwice]_vars

---------------------------------------------------------------------------
(* SpecRoleBinding: reconcile_spark_manifests on a bundle of a Role and one   *)
(* RoleBinding, for every shape of the RoleBinding                           *)

MaxSubjects == 2     \* subjects of a RoleBinding

SubjectSamples ==
    {[kind |-> "ServiceAccount", name |-> "spark", namespace |-> "ns-x"],
     [kind |-> "ServiceAccount", name |-> "spark", namespace |-> "a"],
     [kind |-> "User", name |-> "jane"],
     [kind |-> "Group", name |-> "admins"]}

\* metadata.namespace and subjects are optional keys of the document
RoleBindings ==
    LET named == {[kind |-> "RoleBinding", name |-> "spark-role-binding", roleRef |-> r] :
                    r \in {"spark-role", "view"}}
        placed == named \cup {rolebinding @@ ("metadata_namespace" :> "ns-x") : rolebinding \in named}
    IN  placed \cup {rolebinding @@ ("subjects" :> subjects) :
                        rolebinding \in placed,
                        subjects \in SeqsUpTo(SubjectSamples, MaxSubjects)}

InitRoleBinding ==
    /\ config \in {[profile |-> Some(<<"*">>)], [profile |-> Some(<<"a">>)]}
    /\ relations \in {{ROLEBINDINGS_DISPATCHER_RELATION_NAME},
                      {ROLEBINDINGS_DISPATCHER_RELATION_NAME, ROLES_DISPATCHER_RELATION_NAME}}
    /\ reldata = NoRelData
    /\ leader = TRUE
    /\ channels = NoChannels
    /\ requests = NoRequests
    /\ last = [op |-> "init"]

ReconcileRoleBinding ==
    /\ last.op = "init"
    /\ \E rolebinding \in RoleBindings :
        last' = [op |-> "reconcile_spark_manifests rolebinding",
                 rolebinding |-> rolebinding,
                 out |-> reconcile_spark_manifests(
                            config, relations,
                            [parseable |-> TRUE,
                             docs |-> <<[kind |-> "Role", name |-> "spark-role"], rolebinding>>],
                            <<"spark">>)]
    /\ UNCHANGED <<config, relations, reldata, leader, channels, requests>>

NextRoleBinding == ReconcileRoleBinding

SpecRoleBinding == InitRoleBinding /\ [][NextRoleBinding]_vars

---------------------------------------------------------------------------
(* SpecSparkAccount: SparkManager.generate_manifests for every service-account *)
(* value of the spark relation                                                *)

MaxAccountLen == 3   \* pieces in a service-account value

\* strings over two names and the separator
AccountValues ==
    {value \in SeqsUpTo({"ns", "spark", ":"}, MaxAccountLen) :
        \A i \in 1..(Len(value) - 1) : value[i] = ":" \/ value[i + 1] = ":"}

InitSparkAccount ==
    /\ config \in {[profile |-> Some(<<"*">>)], [profile |-> Some(<<"a">>)]}
    /\ relations \in {{POD_DEFAULTS_DISPATCHER_RELATION_NAME},
                      {POD_DEFAULTS_DISPATCHER_RELATION_NAME, SECRETS_DISPATCHER_RELATION_NAME},
                      Dispatchers}
    /\ reldata = NoRelData
    /\ leader = TRUE
    /\ channels = NoChannels
    /\ requests = NoRequests
    /\ last = [op |-> "init"]

SparkGenerateManifests ==
    /\ last.op = "init"
    /\ \E value \in AccountValues :
        last' = [op |-> "spark generate_manifests",
                 service_account |-> value,
                 out |-> spark_generate_manifests(
                            config, relations,
                            Some([service_account |-> value,
                                  resource_manifest |-> Some([parseable |-> TRUE,
                                        docs |-> <<[kind |-> "ServiceAccount", name |-> "spark"]>>]),
                                  spark_properties |-> <<"{}">>]))]
    /\ UNCHANGED <<config, relations, reldata, leader, channels, requests>>

NextSparkAccount == SparkGenerateManifests

SpecSparkAccount == InitSparkAccount /\ [][NextSparkAccount]_vars

---------------------------------------------------------------------------
(* SpecAdd: ReconciledManifests.__add__ applied to every triple of bounded    *)
(* batches                                                                   *)

MaxBatch == 1        \* manifests in one batch

ManifestIds == {"m1", "m2"}

ChannelNames == {"secrets", "poddefaults", "serviceaccounts", "roles", "role_bindings"}

\* the batches holding at most MaxBatch manifests
Batches ==
    LET lists == SeqsUpTo(ManifestIds, MaxBatch)
    IN  {ReconciledManifests(t[1], t[2], t[3], t[4], t[5]) :
            t \in {u \in lists \X lists \X lists \X lists \X lists :
                    Len(u[1]) + Len(u[2]) + Len(u[3]) + Len(u[4]) + Len(u[5]) <= MaxBatch}}

InitAdd ==
    /\ config = [profile |-> None]
    /\ relations = {}
    /\ reldata = NoRelData
    /\ leader = TRUE
    /\ channels = NoChannels
    /\ requests = NoRequests
    /\ \E A \in Batches, B \in Batches, C \in Batches :
          last = [op |-> "operands", A |-> A, B |-> B, C |-> C]

AddBatches ==
    /\ last.op = "operands"
    /\ last' = [op |-> "__add__", A |-> last.A, B |-> last.B, C |-> last.C,
                A_B |-> Add(last.A, last.B),
                AB_C |-> Add(Add(last.A, last.B), last.C),
                A_BC |-> Add(last.A, Add(last.B, last.C)),
                E_B |-> Add(EmptyManifests, last.B),
                B_E |-> Add(last.B, EmptyManifests)]
    /\ UNCHANGED <<config, relations, reldata, leader, channels, requests>>

NextAdd == AddBatches

SpecAdd == InitAdd /\ [][NextAdd]_vars

---------------------------------------------------------------------------
(* SpecPass: the handler of a manifests relation change, for every choice of  *)
(* config, dispatcher relations and relation data of the six backends        *)

PassConfigs == {[profile |-> None], [profile |-> Some(<<"*">>)], [profile |-> Some(<<"a">>)]}

PassRelations ==
    {{}, {SECRETS_DISPATCHER_RELATION_NAME}, {POD_DEFAULTS_DISPATCHER_RELATION_NAME},
     {SECRETS_DISPATCHER_RELATION_NAME, POD_DEFAULTS_DISPATCHER_RELATION_NAME},
     Dispatchers}

\* the field in which a backend reports the resource it created
ResourceField(backend) ==
    CASE backend = OPENSEARCH -> "index"
      [] backend = KAFKA -> "topic"
      [] OTHER -> "database"

\* credentials, with the resource the backend created
Credentials(backend) ==
    <<[k |-> "username", v |-> <<"a-username">>],
      [k |-> "password", v |-> <<"a-password">>],
      [k |-> ResourceField(backend), v |-> <<"a-resource">>]>>

\* no relation or credentials; for postgresql and kafka also: credentials not
\* yet shared, and credentials with an empty tls-ca
DatabaseRelData(backend) ==
    {None, Some(Credentials(backend))}
    \cup IF backend \in {POSTGRESQL, KAFKA}
         THEN {Some(<<[k |-> ResourceField(backend), v |-> <<"a-resource">>]>>),
               Some(Append(Credentials(backend), [k |-> "tls-ca", v |-> <<>>]))}
         ELSE {}

SparkBundle ==
    [parseable |-> TRUE,
     docs |-> <<[kind |-> "Secret", name |-> "kafka-secret"],
                [kind |-> "ServiceAccount", name |-> "spark"]>>]

\* no relation; no manifest yet; a granted account; an account without namespace
SparkRelData ==
    {None,
     Some([service_account |-> <<"ns", ":", "spark">>, resource_manifest |-> None,
           spark_properties |-> <<"{}">>]),
     Some([service_account |-> <<"ns", ":", "spark">>, resource_manifest |-> Some(SparkBundle),
           spark_properties |-> <<"{}">>]),
     Some([service_account |-> <<"spark">>, resource_manifest |-> Some(SparkBundle),
           spark_properties |-> <<"{}">>])}

RelDatas ==
    {<<o, p, my, mo, ka, sp>> :
        o \in DatabaseRelData(OPENSEARCH), p \in DatabaseRelData(POSTGRESQL),
        my \in DatabaseRelData(MYSQL), mo \in DatabaseRelData(MONGODB),
        ka \in DatabaseRelData(KAFKA), sp \in SparkRelData}

InitPass ==
    /\ config \in PassConfigs
    /\ relations \in PassRelations
    /\ reldata \in RelDatas
    /\ leader \in BOOLEAN
    /\ channels = NoChannels
    /\ requests = NoRequests
    /\ last = [op |-> "init"]

OnManifestsRelationChange ==
    /\ \E generated \in {GenerateAll(config, relations, reldata)} :
       \E out \in {_on_manifests_relation_change(relations, generated, leader, channels)} :
          /\ last' = [op |-> "_on_manifests_relation_change", ran |-> out.ran,
                      raised |-> out.raised, sent |-> out.sent]
          /\ channels' = out.channels
    /\ UNCHANGED <<config, relations, reldata, leader, requests>>

NextPass == OnManifestsRelationChange

SpecPass == InitPass /\ [][NextPass]_vars

---------------------------------------------------------------------------
(* events/general.py _on_config_changed, update_relation_data of the managers *)

\* the required option of each backend, in the order of Backends
Options ==
    <<"opensearch-index-name", "postgresql-database-name", "mysql-database-name",
      "mongodb-database-name", "kafka-topic-name", "spark-service-account">>

\* GlobalState.opensearch_config and the same property of the other backends:
\* the validated config, here the required option after nullify_empty_string,
\* None when validation raises
backend_config(i, cfg) ==
    IF (CASE Backends[i] = OPENSEARCH -> OpenSearchConfigErrors(cfg)
          [] Backends[i] = POSTGRESQL -> PostgresqlConfigErrors(cfg)
          [] Backends[i] = MYSQL -> MysqlConfigErrors(cfg)
          [] Backends[i] = MONGODB -> MongoDbConfigErrors(cfg)
          [] Backends[i] = KAFKA -> KafkaConfigErrors(cfg)
          [] Backends[i] = SPARK -> SparkConfigErrors(cfg)) = <<>>
    THEN Some(nullify_empty_string(cfg[Options[i]][1]))
    ELSE None

\* index_active, database_active, topic_active, service_account_active
resource_active(i, data) ==
    IF Backends[i] = SPARK
    THEN service_account_active(data)
    ELSE active(data, ResourceField(Backends[i]))

\* the dict a manager writes; the extra-user-roles and consumer-group-prefix
\* options are unset, hence ""
relation_data(i, name) ==
    CASE Backends[i] = SPARK ->
            <<[k |-> "service-account", v |-> name], [k |-> "skip-creation", v |-> Some(<<"true">>)]>>
      [] Backends[i] = KAFKA ->
            <<[k |-> "topic", v |-> name], [k |-> "extra-user-roles", v |-> Some(<<>>)],
              [k |-> "consumer-group-prefix", v |-> Some(<<>>)]>>
      [] OTHER ->
            <<[k |-> ResourceField(Backends[i]), v |-> name],
              [k |-> "extra-user-roles", v |-> Some(<<>>)]>>

\* update_relation_data: with a validated config, the dict is written to every
\* relation of the backend
update_relation_data(i, cfg, rd, reqs) ==
    IF backend_config(i, cfg) # None /\ rd[i] # None
    THEN [reqs EXCEPT ![i] = Some(relation_data(i, backend_config(i, cfg)[1]))]
    ELSE reqs

\* variant: the resource the relation reports is not looked at
Routed_ResourceUnchecked(cfg, rd) == {i \in 1..Len(Backends) : backend_config(i, cfg) # None}

\* the backends whose update_relation_data the handler calls
Routed(cfg, rd) ==
    {i \in 1..Len(Backends) : backend_config(i, cfg) # None /\ ~resource_active(i, rd[i])}

RECURSIVE UpdateAll(_, _, _, _)
UpdateAll(todo, cfg, rd, reqs) ==
    IF todo = {} THEN reqs
    ELSE LET i == CHOOSE j \in todo : \A h \in todo : j <= h
         IN  UpdateAll(todo \ {i}, cfg, rd, update_relation_data(i, cfg, rd, reqs))

\* variant: the handler does not look at leadership
_on_config_changed_LeaderUnchecked(cfg, rd, is_leader, written, reqs, pass) ==
    [requests |-> UpdateAll(Routed(cfg, rd), cfg, rd, reqs),
     routed |-> Routed(cfg, rd),
     passes |-> 1,
     raised |-> pass.raised,
     channels |-> pass.channels]

\* _on_config_changed: nothing on a non-leader; on the leader the routed
\* updates in the order of Backends, then the reconciliation pass, whose
\* outcome is handed in as pass
_on_config_changed(cfg, rd, is_leader, written, reqs, pass) ==
    IF ~is_leader
    THEN [requests |-> reqs, routed |-> {}, passes |-> 0, raised |-> FALSE, channels |-> written]
    ELSE [requests |-> UpdateAll(Routed(cfg, rd), cfg, rd, reqs),
          routed |-> Routed(cfg, rd),
          passes |-> 1,
          raised |-> pass.raised,
          channels |-> pass.channels]

---------------------------------------------------------------------------
(* SpecStatus: the statuses after config-changed events and after events of  *)
(* the backend relations, which end in _on_config_changed; the charm has no  *)
(* dispatcher relation, so the reconciliation that closes the handler sends  *)
(* the empty batch                                                           *)

MaxInUse == 2   \* backends with an option set or a relation, at a time

NoConfig == [option \in {"profile"} \cup {Options[i] : i \in 1..Len(Options)} |-> None]

TopicSamples == {<<>>, <<"a">>, <<"*">>, <<"a", "a", "*">>, <<"a", "a", "a", "*">>}

\* unset, or set to a string
OptionValues(option) ==
    CASE option = "profile" -> {None, Some(<<>>), Some(<<"a">>), Some(<<"A">>)}
      [] option = "kafka-topic-name" -> {None} \cup {Some(topic) : topic \in TopicSamples}
      [] OTHER -> {None, Some(<<>>), Some(<<"a">>)}

\* no relation; a relation that has not shared credentials; credentials
StatusRelData(i) ==
    IF Backends[i] = SPARK
    THEN {None,
          Some([service_account |-> <<"ns", ":", "spark">>, resource_manifest |-> None,
                spark_properties |-> <<"{}">>]),
          Some([service_account |-> <<"ns", ":", "spark">>,
                resource_manifest |-> Some(SparkBundle), spark_properties |-> <<"{}">>])}
    ELSE {None,
          Some(<<[k |-> ResourceField(Backends[i]), v |-> <<"a-resource">>]>>),
          Some(Credentials(Backends[i]))}

InUse(cfg, rd) == {i \in 1..Len(Backends) : cfg[Options[i]] # None \/ rd[i] # None}

\* get_statuses of every manager, and what the StatusHandler collects
Statuses(op, cfg, rd) ==
    [op |-> op,
     manifests |-> manifests_get_statuses("app", cfg),
     backends |-> <<opensearch_get_statuses("app", cfg, rd[1]),
                    postgresql_get_statuses("app", cfg, rd[2]),
                    mysql_get_statuses("app", cfg, rd[3]),
                    mongodb_get_statuses("app", cfg, rd[4]),
                    kafka_get_statuses("app", cfg, rd[5]),
                    spark_get_statuses("app", cfg, rd[6])>>,
     unit |-> <<opensearch_get_statuses("unit", cfg, rd[1]),
                postgresql_get_statuses("unit", cfg, rd[2]),
                mysql_get_statuses("unit", cfg, rd[3]),
                mongodb_get_statuses("unit", cfg, rd[4]),
                kafka_get_statuses("unit", cfg, rd[5]),
                spark_get_statuses("unit", cfg, rd[6])>>,
     app |-> StatusHandler(cfg, rd)]

InitStatus ==
    /\ config \in {[NoConfig EXCEPT !["profile"] = profile] : profile \in OptionValues("profile")}
    /\ relations = {}
    /\ reldata = NoRelData
    /\ leader = TRUE
    /\ channels = NoChannels
    /\ requests = NoRequests
    /\ last = [op |-> "init"]

Start ==
    /\ last.op = "init"
    /\ last' = Statuses("start", config, reldata)
    /\ UNCHANGED <<config, relations, reldata, leader, channels, requests>>

ConfigChanged ==
    /\ last.op # "init"
    /\ \E option \in DOMAIN config : \E value \in OptionValues(option) :
          /\ config' = [config EXCEPT ![option] = value]
          /\ Cardinality(InUse(config', reldata)) <= MaxInUse
          /\ last' = Statuses("config_changed", config', reldata)
    /\ \E pass \in {_on_manifests_relation_change(
                       relations, GenerateAll(config', relations, reldata), leader, channels)} :
       \E out \in {_on_config_changed(config', reldata, leader, channels, requests, pass)} :
          /\ requests' = out.requests
          /\ channels' = out.channels
    /\ UNCHANGED <<relations, reldata, leader>>

\* a relation event of a backend: the relation is gone, with what was written
\* to it, or its data changed and the handler ends in _on_config_changed
RelationChanged ==
    /\ last.op # "init"
    /\ \E i \in 1..Len(Backends) : \E data \in StatusRelData(i) :
          /\ reldata' = [reldata EXCEPT ![i] = data]
          /\ Cardinality(InUse(config, reldata')) <= MaxInUse
          /\ last' = Statuses("relation_changed", config, reldata')
          /\ IF data = None
             THEN /\ requests' = [requests EXCEPT ![i] = None]
                  /\ channels' = channels
             ELSE \E pass \in {_on_manifests_relation_change(
                                  relations, GenerateAll(config, relations, reldata'), leader,
                                  channels)} :
                  \E out \in {_on_config_changed(config, reldata', leader, channels, requests,
                                                 pass)} :
                     /\ requests' = out.requests
                     /\ channels' = out.channels
    /\ UNCHANGED <<config, relations, leader>>

NextStatus == Start \/ ConfigChanged \/ RelationChanged

SpecStatus == InitStatus /\ [][NextStatus]_vars

---------------------------------------------------------------------------
(* SpecEvents: the events the charm observes, one after the other, on a       *)
(* leader or on a non-leader unit                                            *)

MaxRequested == 1   \* backends with an option set or a relation, at a time

EventOptionValues(option) ==
    CASE option = "profile" -> {None, Some(<<"a">>)}
      [] option = "kafka-topic-name" -> {None, Some(<<"a">>), Some(<<"b">>), Some(<<"*">>)}
      [] OTHER -> {None, Some(<<"a">>), Some(<<"b">>)}

\* a relation that shares nothing yet, or one that shares credentials and the
\* resource (for spark: the account and its manifest)
EventRelData(i) ==
    IF Backends[i] = SPARK
    THEN {Some([service_account |-> <<>>, resource_manifest |-> None, spark_properties |-> <<>>]),
          Some([service_account |-> <<"ns", ":", "spark">>,
                resource_manifest |-> Some(SparkBundle), spark_properties |-> <<"{}">>])}
    ELSE {Some(<<>>), Some(Credentials(Backends[i]))}

EventDispatchers == {SECRETS_DISPATCHER_RELATION_NAME, POD_DEFAULTS_DISPATCHER_RELATION_NAME}

\* the backends whose options and relations the events concern
EventBackends == {i \in 1..Len(Backends) : Backends[i] \in {POSTGRESQL, KAFKA, SPARK}}

InitEvents ==
    /\ config \in {[NoConfig EXCEPT !["profile"] = profile] : profile \in EventOptionValues("profile")}
    /\ relations = {}
    /\ reldata = NoRelData
    /\ leader \in BOOLEAN
    /\ channels = NoChannels
    /\ requests = NoRequests
    /\ last = [op |-> "init"]

\* config-changed
ConfigChangedEvent ==
    /\ \E option \in {"profile"} \cup {Options[i] : i \in EventBackends} :
       \E value \in EventOptionValues(option) :
          /\ config' = [config EXCEPT ![option] = value]
          /\ Cardinality(InUse(config', reldata)) <= MaxRequested
    /\ \E pass \in {_on_manifests_relation_change(
                       relations, GenerateAll(config', relations, reldata), leader, channels)} :
       \E out \in {_on_config_changed(config', reldata, leader, channels, requests, pass)} :
          /\ requests' = out.requests
          /\ channels' = out.channels
          /\ last' = [op |-> "config_changed", routed |-> out.routed, passes |-> out.passes,
                      raised |-> out.raised]
    /\ UNCHANGED <<relations, reldata, leader>>

\* database/index/topic (entity) created, spark account granted, gone, properties changed
CredentialsEvent ==
    /\ \E i \in EventBackends : \E data \in EventRelData(i) :
          /\ reldata' = [reldata EXCEPT ![i] = data]
          /\ Cardinality(InUse(config, reldata')) <= MaxRequested
    /\ \E pass \in {_on_manifests_relation_change(
                       relations, GenerateAll(config, relations, reldata'), leader, channels)} :
       \E out \in {_on_config_changed(config, reldata', leader, channels, requests, pass)} :
          /\ requests' = out.requests
          /\ channels' = out.channels
          /\ last' = [op |-> "credentials", routed |-> out.routed, passes |-> out.passes,
                      raised |-> out.raised]
    /\ UNCHANGED <<config, relations, leader>>

\* relation-broken of a backend: the handler does nothing; the relation and
\* what was written to it are gone
RelationBrokenEvent ==
    /\ \E i \in 1..Len(Backends) :
          /\ reldata[i] # None
          /\ reldata' = [reldata EXCEPT ![i] = None]
          /\ requests' = [requests EXCEPT ![i] = None]
    /\ last' = [op |-> "relation_broken", routed |-> {}, passes |-> 0, raised |-> FALSE]
    /\ UNCHANGED <<config, relations, leader, channels>>

\* relation-created and relation-changed of a dispatcher relation
DispatcherRelationEvent ==
    /\ \E relation \in EventDispatchers :
          relations' = relations \cup {relation}
    /\ \E out \in {_on_manifests_relation_change(
                      relations', GenerateAll(config, relations', reldata), leader, channels)} :
          /\ channels' = out.channels
          /\ last' = [op |-> "manifests_relation_change", routed |-> {},
                      passes |-> IF out.ran THEN 1 ELSE 0, raised |-> out.raised]
    /\ UNCHANGED <<config, reldata, leader, requests>>

NextEvents ==
    ConfigChangedEvent \/ CredentialsEvent \/ RelationBrokenEvent \/ DispatcherRelationEvent

SpecEvents == InitEvents /\ [][NextEvents]_vars

---------------------------------------------------------------------------
(* SpecProfile: a start event followed by config-changed events that change  *)
(* the profile, with the status of the manifests manager after each event    *)

MaxEvents == 4   \* events in a run

ProfileAlphabet == {"a", "A", "-", "_", " ", "!", "*"}

ProfileValues == {None} \cup {Some(p) : p \in SeqsUpTo(ProfileAlphabet, MaxProfileLen)}

InitProfile ==
    /\ config \in {[NoConfig EXCEPT !["profile"] = profile] : profile \in ProfileValues}
    /\ relations = {}
    /\ reldata = NoRelData
    /\ leader = TRUE
    /\ channels = NoChannels
    /\ requests = NoRequests
    /\ last = [op |-> "init"]

StartProfile ==
    /\ last.op = "init"
    /\ last' = [op |-> "start", trace |-> <<manifests_get_statuses("app", config)>>]
    /\ UNCHANGED <<config, relations, reldata, leader, channels, requests>>

ProfileChanged ==
    /\ last.op # "init"
    /\ Len(last.trace) < MaxEvents
    /\ \E profile \in ProfileValues :
          /\ config' = [config EXCEPT !["profile"] = profile]
          /\ last' = [op |-> "config_changed",
                      trace |-> Append(last.trace, manifests_get_statuses("app", config'))]
    /\ \E pass \in {_on_manifests_relation_change(
                       relations, GenerateAll(config', relations, reldata), leader, channels)} :
       \E out \in {_on_config_changed(config', reldata, leader, channels, requests, pass)} :
          /\ requests' = out.requests
          /\ channels' = out.channels
    /\ UNCHANGED <<relations, reldata, leader>>

NextProfile == StartProfile \/ ProfileChanged

SpecProfile == InitProfile /\ [][NextProfile]_vars

---------------------------------------------------------------------------
(* SpecGenerate: generate_manifests of one manager, for every shape of the   *)
(* data its relation holds                                                   *)

\* no relation, or a relation whose data has each of username, password and
\* the reported resource absent, empty or set; for spark each of the three
\* fields empty or set
GenerateRelData(i) ==
    IF Backends[i] = SPARK
    THEN {None} \cup
         {Some([service_account |-> account, resource_manifest |-> manifest,
                spark_properties |-> properties]) :
            account \in {<<>>, <<"ns", ":", "spark">>},
            manifest \in {None, Some(SparkBundle)},
            properties \in {<<>>, <<"{}">>}}
    ELSE {None} \cup
         {Some(Concat(<<u, p, r>>)) :
            u \in {<<>>, <<[k |-> "username", v |-> <<>>]>>,
                   <<[k |-> "username", v |-> <<"a-username">>]>>},
            p \in {<<>>, <<[k |-> "password", v |-> <<>>]>>,
                   <<[k |-> "password", v |-> <<"a-password">>]>>},
            r \in {<<>>, <<[k |-> ResourceField(Backends[i]), v |-> <<>>]>>,
                   <<[k |-> ResourceField(Backends[i]), v |-> <<"a-resource">>]>>}}

InitGenerate ==
    /\ config \in PassConfigs
    /\ relations \in PassRelations
    /\ reldata = NoRelData
    /\ leader = TRUE
    /\ channels = NoChannels
    /\ requests = NoRequests
    /\ last = [op |-> "init"]

GenerateManifests ==
    /\ last.op = "init"
    /\ \E i \in 1..Len(Backends) : \E data \in GenerateRelData(i) :
          /\ reldata' = [reldata EXCEPT ![i] = data]
          /\ last' = [op |-> "generate_manifests", backend |-> i,
                      out |-> GenerateAll(config, relations, reldata')[i]]
    /\ UNCHANGED <<config, relations, leader, channels, requests>>

NextGenerate == GenerateManifests

SpecGenerate == InitGenerate /\ [][NextGenerate]_vars

---------------------------------------------------------------------------
(* SpecEnvVar: the construction of one PodDefaultEnvVar, for every choice of  *)
(* the fields the class declares                                             *)

EnvVarNames == {"POSTGRESQL_USERNAME", "POSTGRESQL_PASSWORD", "SPARK_NAMESPACE"}

EnvVarValues == {None, Some(<<>>), Some(<<"v">>), Some(<<"w">>)}

EnvVarSecrets ==
    {None} \cup {Some(EnvVarFromSecret(K8S_DATABASE_SECRET_NAME[b], key)) :
                    b \in Databases, key \in {"POSTGRESQL_USERNAME", "POSTGRESQL_PASSWORD"}}

InitEnvVar ==
    /\ config = [profile |-> None]
    /\ relations = {}
    /\ reldata = NoRelData
    /\ leader = TRUE
    /\ channels = NoChannels
    /\ requests = NoRequests
    /\ \E name \in EnvVarNames, value \in EnvVarValues, secret \in EnvVarSecrets :
          last = [op |-> "arguments", name |-> name, value |-> value, secret |-> secret]

\* PodDefaultEnvVar(name=..., value=..., secret=...): the fields are assigned,
\* then the model validator runs
ConstructEnvVar ==
    /\ last.op = "arguments"
    /\ \E env_var \in {PodDefaultEnvVar(last.name, last.value, last.secret)} :
          last' = [op |-> "PodDefaultEnvVar", env_var |-> env_var,
                   accepted |-> check_on_of(env_var)]
    /\ UNCHANGED <<config, relations, reldata, leader, channels, requests>>

NextEnvVar == ConstructEnvVar

SpecEnvVar == InitEnvVar /\ [][NextEnvVar]_vars

---------------------------------------------------------------------------
(* Vocabulary of the properties *)

Range(seq) == {seq[i] : i \in 1..Len(seq)}

DbCall == last.op = "reconcile_database_manifests"
SparkCall == last.op = "reconcile_spark_manifests"

ProfileSet == config.profile # None /\ PROFILE_REGEX(config.profile[1])
SecretsActive == SECRETS_DISPATCHER_RELATION_NAME \in relations
PodDefaultsActive == POD_DEFAULTS_DISPATCHER_RELATION_NAME \in relations

\* the credential fields of the caller's map: every entry but the bulk "data"
Fields(creds) == {e \in Range(creds) : e.k # "data"}

IsSecretRef(env_var, secret_name) ==
    /\ env_var.value = None
    /\ env_var.fieldref = None
    /\ env_var.secret # None
    /\ env_var.secret[1].secret_name = secret_name
    /\ env_var.secret[1].secret_key = env_var.name

IsLiteral(env_var) ==
    env_var.value # None /\ env_var.secret = None /\ env_var.fieldref = None

TlsRequested(creds) ==
    \E e \in Range(creds) : e.k = "tls-ca" /\ e.v # <<>> /\ e.v # <<"disabled">>

TlsSecrets(batch, database_name) ==
    {m \in Range(batch.secrets) : m.name = database_name \o "-tls-secret"}

CredentialSecrets(batch, database_name) ==
    {m \in Range(batch.secrets) : m.name = database_name \o "-secret"}

---------------------------------------------------------------------------
(* C1 *)

\* C1: with a profile set and both the secrets and the pod-defaults relation
\* present, reconcile_database_manifests returns one PodDefault and every env var
\* of it is a secret-key reference to the backend's credentials Secret, never a
\* literal value.
C1_SecretIndirection ==
    (DbCall /\ ProfileSet /\ SecretsActive /\ PodDefaultsActive) =>
        /\ ~last.out.raised
        /\ Len(last.out.batch.poddefaults) = 1
        /\ \A env_var \in Range(last.out.batch.poddefaults[1].env_vars) :
              IsSecretRef(env_var, last.database_name \o "-secret")

C1_Witness ==
    /\ DbCall /\ ProfileSet /\ SecretsActive /\ PodDefaultsActive
    /\ TlsRequested(last.creds)
    /\ Len(last.out.batch.poddefaults) = 1
    /\ Len(last.out.batch.poddefaults[1].env_vars) = 3

---------------------------------------------------------------------------
(* C2 *)

\* the env var the claim expects for one credential field
LiteralOf(e) ==
    [name |-> e.k,
     value |-> Some(IF e.k = "tls-ca" THEN SelectSeq(e.v, LAMBDA piece : piece # "\n") ELSE e.v),
     secret |-> None, fieldref |-> None]

\* C2: with a profile set and only the pod-defaults relation present, the call
\* returns one PodDefault that carries exactly one literal env var per credential
\* field, holding the field's value, a tls-ca value without its newlines.
C2_InlineLiterals ==
    (DbCall /\ ProfileSet /\ ~SecretsActive /\ PodDefaultsActive) =>
        /\ ~last.out.raised
        /\ Len(last.out.batch.poddefaults) = 1
        /\ Len(last.out.batch.poddefaults[1].env_vars) = Cardinality(Fields(last.creds))
        /\ \A e \in Fields(last.creds) :
              \E env_var \in Range(last.out.batch.poddefaults[1].env_vars) :
                  /\ IsLiteral(env_var)
                  /\ env_var.name = e.k
                  /\ JoinText(env_var.value[1]) = JoinText(LiteralOf(e).value[1])

---------------------------------------------------------------------------
(* C3 *)

Names(manifests) == [i \in 1..Len(manifests) |-> manifests[i].name]

\* the Secret entry of one credential field
SecretEntry(database_name, e) ==
    [k |-> upper(database_name) \o "_" \o upper(e.k), v |-> <<"base64">> \o e.v]

\* the credentials Secret is the only Secret of that name and holds exactly the
\* entries of the given fields
OneCredentialSecret(fields) ==
    /\ ~last.out.raised
    /\ Cardinality({i \in 1..Len(last.out.batch.secrets) :
            last.out.batch.secrets[i].name = K8S_DATABASE_SECRET_NAME[last.database_name]}) = 1
    /\ \A secret \in CredentialSecrets(last.out.batch, last.database_name) :
          /\ Range(secret.data) =
                {SecretEntry(last.database_name, e) : e \in {f \in fields : f.v # <<>>}}
          /\ Len(secret.data) = Cardinality({f \in fields : f.v # <<>>})

\* C3 as stated: with a profile set and the secrets relation present, exactly one
\* credentials Secret is produced and its data has exactly one entry per
\* credential field of the map with a non-empty value.
C3_SecretPerField ==
    (DbCall /\ ProfileSet /\ SecretsActive) => OneCredentialSecret(Fields(last.creds))

\* the fields of the working copy: when a TLS Secret is produced, tls-ca is
\* removed and ca_cert_path is set to the path of the mounted certificate
WorkingFields(creds, database_name) ==
    IF TlsRequested(creds)
    THEN {e \in Fields(creds) : e.k \notin {"tls-ca", "ca_cert_path"}}
            \cup {[k |-> "ca_cert_path",
                   v |-> <<K8S_TLS_MOUNTPATH \o "/" \o database_name \o "_ca.crt">>]}
    ELSE Fields(creds)

\* C3 amended: with a profile set and the secrets relation present, exactly one
\* credentials Secret named K8S_DATABASE_SECRET_NAME[backend] is produced; its data
\* has exactly one entry, keyed UPPER(backend)_UPPER(field) and holding base64 of
\* the value, per non-empty field of the working copy of the map, in which a
\* tls-ca that yields a TLS Secret is replaced by ca_cert_path.
C3_SecretPerWorkingField ==
    (DbCall /\ ProfileSet /\ SecretsActive) =>
        OneCredentialSecret(WorkingFields(last.creds, last.database_name))

C3_Witness ==
    /\ DbCall /\ ProfileSet /\ SecretsActive
    /\ TlsRequested(last.creds)
    /\ \E e \in Fields(last.creds) : e.k = "username" /\ e.v = <<>>
    /\ \E e \in Fields(last.creds) : e.k = "password" /\ e.v # <<>>
    /\ Len(last.out.batch.secrets) = 2
    /\ Len(last.out.batch.secrets[2].data) = 2

---------------------------------------------------------------------------
(* C4 *)

\* the objects of the returned batch that were rendered from a template
Rendered ==
    IF DbCall THEN Range(last.out.batch.secrets) \cup Range(last.out.batch.poddefaults)
    ELSE IF SparkCall THEN Range(last.out.batch.poddefaults)
    ELSE {}

\* C4: every object rendered from a template has no namespace when the profile
\* is "*" and has the profile as its namespace otherwise.
C4_WildcardScoping ==
    ProfileSet =>
        \A object \in Rendered :
            IF config.profile[1] = <<"*">>
            THEN object.namespace = None
            ELSE object.namespace = Some(config.profile[1])

C4_Witness ==
    /\ SparkCall /\ ProfileSet
    /\ config.profile[1] = <<"*">>
    /\ Len(last.out.batch.poddefaults) = 2
    /\ \A object \in Rendered : object.namespace = None

---------------------------------------------------------------------------
(* C5 *)

\* C5: without a valid profile both renderers return the all-empty batch and do
\* not raise, whatever the input and the dispatcher relations.
C5_FailClosed ==
    ((DbCall \/ SparkCall) /\ ~ProfileSet) =>
        /\ ~last.out.raised
        /\ last.out.batch = EmptyManifests

C5_Witness ==
    /\ SparkCall
    /\ config.profile # None /\ ~ProfileSet
    /\ relations = Dispatchers
    /\ ~last.raw_manifests.parseable
    /\ last.out.batch = EmptyManifests

---------------------------------------------------------------------------
(* C6 *)

TlsDisabled(creds) == \E e \in Range(creds) : e.k = "tls-ca" /\ e.v = <<"disabled">>

CertPathNames(database_name) ==
    {"ca_cert_path", upper(database_name) \o "_CA_CERT_PATH"}

\* C6: a map whose tls-ca is "disabled" yields no TLS Secret, no secret volume on
\* the PodDefault and no ca_cert_path env var, whatever the dispatcher relations.
C6_TlsSuppression ==
    (DbCall /\ TlsDisabled(last.creds)) =>
        /\ TlsSecrets(last.out.batch, last.database_name) = {}
        /\ \A secret \in Range(last.out.batch.secrets) :
              secret.name = K8S_DATABASE_SECRET_NAME[last.database_name]
        /\ \A poddefault \in Range(last.out.batch.poddefaults) :
              /\ poddefault.secret_volumes = None
              /\ \A env_var \in Range(poddefault.env_vars) :
                    env_var.name \notin CertPathNames(last.database_name)

C6_Witness ==
    /\ DbCall /\ ProfileSet /\ SecretsActive /\ PodDefaultsActive
    /\ TlsDisabled(last.creds)
    /\ Len(last.out.batch.secrets) = 1
    /\ Len(last.out.batch.poddefaults) = 1
    /\ \E env_var \in Range(last.out.batch.poddefaults[1].env_vars) :
          env_var.name = upper(last.database_name) \o "_TLS-CA"

---------------------------------------------------------------------------
(* C7 *)

TlsCaNames(database_name) == {"tls-ca", upper(database_name) \o "_TLS-CA"}

\* the value ca_cert_path must have: the mount path, "/", the TLS Secret's data key
CertPathOf(tls) == <<K8S_TLS_MOUNTPATH \o "/" \o tls.data[1].k>>

\* C7: the PodDefault has a secret-backed volume iff a TLS Secret was produced in
\* the same call; then the volume mounts the backend's TLS Secret at
\* K8S_TLS_MOUNTPATH, ca_cert_path stands in for tls-ca with the value
\* K8S_TLS_MOUNTPATH/{backend}_ca.crt, and neither a Secret key nor an env var
\* is named after tls-ca.
C7_TlsMaterialisation ==
    DbCall =>
        LET batch == last.out.batch
            db == last.database_name
            produced == TlsSecrets(batch, db) # {}
        IN  /\ \A poddefault \in Range(batch.poddefaults) :
                  /\ (poddefault.secret_volumes # None) <=> produced
                  /\ produced =>
                        /\ poddefault.secret_volumes =
                              Some(<<[name |-> K8S_TLS_SECRET_VOLUME,
                                      secret_name |-> db \o "-tls-secret",
                                      mount_path |-> K8S_TLS_MOUNTPATH]>>)
                        /\ \E env_var \in Range(poddefault.env_vars) :
                              /\ env_var.name = upper(db) \o "_CA_CERT_PATH"
                              /\ IsSecretRef(env_var, db \o "-secret")
                        /\ \A env_var \in Range(poddefault.env_vars) :
                              env_var.name \notin TlsCaNames(db)
            /\ \A tls \in TlsSecrets(batch, db) :
                  /\ Len(tls.data) = 1
                  /\ tls.data[1].k = db \o "_ca.crt"
                  /\ \A secret \in CredentialSecrets(batch, db) :
                        /\ [k |-> upper(db) \o "_CA_CERT_PATH",
                            v |-> <<"base64">> \o CertPathOf(tls)] \in Range(secret.data)
                        /\ \A e \in Range(secret.data) : e.k \notin TlsCaNames(db)

C7_Witness ==
    /\ DbCall /\ ProfileSet /\ SecretsActive /\ PodDefaultsActive
    /\ TlsRequested(last.creds)
    /\ TlsSecrets(last.out.batch, last.database_name) # {}
    /\ Len(last.out.batch.poddefaults) = 1
    /\ last.out.batch.poddefaults[1].secret_volumes # None
    /\ \E env_var \in Range(last.out.batch.poddefaults[1].env_vars) :
          env_var.name = upper(last.database_name) \o "_CA_CERT_PATH"

---------------------------------------------------------------------------
(* C8 *)

\* C8: with a profile set, the secrets channel is [TLS Secret, credentials Secret]
\* when the secrets relation is present and tls-ca is non-empty and not
\* "disabled", [credentials Secret] when it is present otherwise, and empty when
\* it is absent; the poddefaults channel holds exactly one PodDefault iff the
\* pod-defaults relation is present; the other three channels are empty.
C8_OutputShape ==
    (DbCall /\ ProfileSet) =>
        LET batch == last.out.batch
            db == last.database_name
        IN  /\ Names(batch.secrets) =
                  IF ~SecretsActive THEN <<>>
                  ELSE IF TlsRequested(last.creds)
                  THEN <<db \o "-tls-secret", db \o "-secret">>
                  ELSE <<db \o "-secret">>
            /\ Len(batch.poddefaults) = IF PodDefaultsActive THEN 1 ELSE 0
            /\ \A poddefault \in Range(batch.poddefaults) : poddefault.kind = "PodDefault"
            /\ batch.serviceaccounts = <<>>
            /\ batch.roles = <<>>
            /\ batch.role_bindings = <<>>

---------------------------------------------------------------------------
(* C9 *)

\* C9: A + B is, channel by channel, A's manifests followed by B's; the sum is
\* associative and the all-empty batch is its identity on both sides.
C9_AddConcatenates ==
    (last.op = "__add__") =>
        /\ \A name \in ChannelNames : last.A_B[name] = last.A[name] \o last.B[name]
        /\ DOMAIN last.A_B = ChannelNames
        /\ last.AB_C = last.A_BC
        /\ last.E_B = last.B
        /\ last.B_E = last.B

C9_Witness ==
    /\ last.op = "__add__"
    /\ last.A.secrets = <<"m1">>
    /\ last.B.secrets = <<"m2">>
    /\ last.C.roles = <<"m1">>
    /\ last.AB_C.secrets = <<"m1", "m2">>
    /\ last.AB_C.roles = <<"m1">>

---------------------------------------------------------------------------
(* C10 *)

PassDone ==
    /\ last.op = "_on_manifests_relation_change"
    /\ last.ran
    /\ ~last.raised
    /\ relations # {}

\* the manifests each backend's manager generated for one channel, in the order
\* opensearch, postgresql, mysql, mongodb, kafka, spark
BackendChannels(generated, relation) ==
    [i \in 1..Len(Backends) |-> ChannelOf(generated[i].batch, relation)]

RECURSIVE SumLen(_)
SumLen(seqs) == IF seqs = <<>> THEN 0 ELSE Len(Head(seqs)) + SumLen(Tail(seqs))

\* C10: the batch a completed pass sends is, per channel, the six backends'
\* manifests concatenated in the order opensearch, postgresql, mysql, mongodb,
\* kafka, spark; nothing is dropped, so the length of a channel is the sum of the
\* backends' lengths and the channel written to the dispatcher is that sequence.
C10_PassConcatenation ==
    PassDone =>
        \A generated \in {GenerateAll(config, relations, reldata)} :
        \A relation \in Dispatchers :
            /\ ChannelOf(last.sent, relation) = Concat(BackendChannels(generated, relation))
            /\ Len(ChannelOf(last.sent, relation)) = SumLen(BackendChannels(generated, relation))
            /\ channels[relation] = ChannelOf(last.sent, relation)

\* kafka and spark both emit a Secret named kafka-secret and both are sent
C10_Witness ==
    /\ PassDone
    /\ Len(channels[SECRETS_DISPATCHER_RELATION_NAME]) = 6
    /\ Names(channels[SECRETS_DISPATCHER_RELATION_NAME]) =
          <<"opensearch-secret", "postgresql-secret", "mysql-secret", "mongodb-secret",
            "kafka-secret", "kafka-secret">>
    /\ Len(channels[POD_DEFAULTS_DISPATCHER_RELATION_NAME]) = 7

---------------------------------------------------------------------------
(* C11 *)

\* C11: a second call of reconcile_database_manifests with the same profile,
\* dispatcher relations, backend and credential map returns the batch the first
\* call returned.
C11_Idempotent ==
    (last.op = "reconcile_database_manifests twice") =>
        /\ ~last.second.raised
        /\ last.second.batch = last.first.batch

---------------------------------------------------------------------------
(* C12 *)

\* the documents of a bundle that carry the given kind, in bundle order
DocsOfKind(docs, kind) ==
    SelectSeq(docs, LAMBDA doc : "kind" \in DOMAIN doc /\ doc.kind = kind)

\* the channel of the batch that the dispatcher relation receives, if it exists
Bucket(channel, relation, docs, kind) ==
    IF relation \in relations
    THEN /\ Names(channel) = Names(DocsOfKind(docs, kind))
         /\ \A doc \in Range(channel) : doc.kind = kind
    ELSE channel = <<>>

\* C12: with a profile set and a service account named, the Secret, ServiceAccount, Role and RoleBinding
\* channels of reconcile_spark_manifests hold exactly the bundle's documents of
\* that kind, in bundle order, when the kind's dispatcher relation exists, and
\* are empty when it does not; Secrets, ServiceAccounts and Roles are passed as
\* received, and a document of another kind is in no channel.
C12_SparkBuckets ==
    (SparkCall /\ ProfileSet /\ last.raw_manifests.parseable /\ last.service_account # <<>>) =>
        LET batch == last.out.batch
            docs == last.raw_manifests.docs
        IN  /\ Bucket(batch.secrets, SECRETS_DISPATCHER_RELATION_NAME, docs, "Secret")
            /\ Bucket(batch.serviceaccounts, SERVICE_ACCOUNTS_DISPATCHER_RELATION_NAME,
                      docs, "ServiceAccount")
            /\ Bucket(batch.roles, ROLES_DISPATCHER_RELATION_NAME, docs, "Role")
            /\ Bucket(batch.role_bindings, ROLEBINDINGS_DISPATCHER_RELATION_NAME,
                      docs, "RoleBinding")
            /\ batch.secrets \in {<<>>, DocsOfKind(docs, "Secret")}
            /\ batch.serviceaccounts \in {<<>>, DocsOfKind(docs, "ServiceAccount")}
            /\ batch.roles \in {<<>>, DocsOfKind(docs, "Role")}
            /\ \A poddefault \in Range(batch.poddefaults) : poddefault.kind = "PodDefault"

---------------------------------------------------------------------------
(* C13 *)

\* a subject as it must be emitted: same keys, every key but namespace as
\* received, a namespace replaced by the placeholder
SubjectPatched(received, emitted) ==
    /\ DOMAIN emitted = DOMAIN received
    /\ \A key \in DOMAIN received \ {"namespace"} : emitted[key] = received[key]
    /\ "namespace" \in DOMAIN received => emitted["namespace"] = "{{ NAMESPACE }}"

\* C13: in every RoleBinding that reconcile_spark_manifests emits, each subject
\* that has a namespace has it replaced by the placeholder "{{ NAMESPACE }}";
\* subjects without a namespace, a missing or empty subjects list and every
\* other field of the document are as received.
C13_SubjectNamespacePatched ==
    (last.op = "reconcile_spark_manifests rolebinding") =>
        /\ ~last.out.raised
        /\ Len(last.out.batch.role_bindings) = 1
        /\ LET received == last.rolebinding
               emitted == last.out.batch.role_bindings[1]
           IN  /\ DOMAIN emitted = DOMAIN received
               /\ \A key \in DOMAIN received \ {"subjects"} : emitted[key] = received[key]
               /\ "subjects" \in DOMAIN received =>
                     /\ Len(emitted["subjects"]) = Len(received["subjects"])
                     /\ \A i \in 1..Len(received["subjects"]) :
                           SubjectPatched(received["subjects"][i], emitted["subjects"][i])

C13_Witness ==
    /\ last.op = "reconcile_spark_manifests rolebinding"
    /\ config.profile = Some(<<"a">>)
    /\ "metadata_namespace" \in DOMAIN last.rolebinding
    /\ "subjects" \in DOMAIN last.rolebinding
    /\ Len(last.rolebinding.subjects) = 2
    /\ last.rolebinding.subjects[1] = [kind |-> "User", name |-> "jane"]
    /\ last.rolebinding.subjects[2] = [kind |-> "ServiceAccount", name |-> "spark", namespace |-> "a"]
    /\ last.out.batch.role_bindings[1].subjects[1] = [kind |-> "User", name |-> "jane"]
    /\ last.out.batch.role_bindings[1].subjects[2].namespace = "{{ NAMESPACE }}"
    /\ last.out.batch.role_bindings[1].metadata_namespace = "ns-x"

---------------------------------------------------------------------------
(* C14 *)

\* the two network-port annotations, naming ports 37371 and 6060
PortAnnotations ==
    <<[key |-> "traffic.sidecar.istio.io/excludeInboundPorts", value |-> "37371,6060"],
      [key |-> "traffic.sidecar.istio.io/excludeOutboundPorts", value |-> "37371,6060"]>>

\* C14: with a profile set, reconcile_spark_manifests emits exactly the two
\* PodDefaults pyspark-pipeline and pyspark-notebook, each carrying the two
\* network-port annotations, when the pod-defaults relation exists, whatever
\* the bundle holds; it emits no PodDefault when the relation does not exist.
C14_TwoSparkPodDefaults ==
    (SparkCall /\ ProfileSet /\ last.service_account # <<>>) =>
        IF PodDefaultsActive
        THEN /\ Names(last.out.batch.poddefaults) = <<"pyspark-pipeline", "pyspark-notebook">>
             /\ \A poddefault \in Range(last.out.batch.poddefaults) :
                   poddefault.annotations = Some(PortAnnotations)
        ELSE last.out.batch.poddefaults = <<>>

---------------------------------------------------------------------------
(* C15 *)

NoColon(value) == \A i \in 1..Len(value) : value[i] # ":"

\* the value reads <namespace>:<name> with a name given
AccountOf(value, name) ==
    /\ name # <<>>
    /\ NoColon(name)
    /\ \E i \in 1..Len(value) :
          /\ value[i] = ":"
          /\ NoColon(SubSeq(value, 1, i - 1))
          /\ name = SubSeq(value, i + 1, Len(value))

SparkEnvVars(poddefault, name) ==
    poddefault.env_vars =
        <<[name |-> "SPARK_SERVICE_ACCOUNT", value |-> Some(name), secret |-> None,
           fieldref |-> None],
          [name |-> "SPARK_NAMESPACE", value |-> None, secret |-> None,
           fieldref |-> Some("metadata.namespace")]>>

---------------------------------------------------------------------------
(* C16 *)

\* the validation errors of the config class of Backends[i]
ErrorsOf(i, cfg) ==
    CASE Backends[i] = OPENSEARCH -> OpenSearchConfigErrors(cfg)
      [] Backends[i] = POSTGRESQL -> PostgresqlConfigErrors(cfg)
      [] Backends[i] = MYSQL -> MysqlConfigErrors(cfg)
      [] Backends[i] = MONGODB -> MongoDbConfigErrors(cfg)
      [] Backends[i] = KAFKA -> KafkaConfigErrors(cfg)
      [] Backends[i] = SPARK -> SparkConfigErrors(cfg)

\* a relation of Backends[i] has shared what the backend needs
RelationActive(i, rd) == IF Backends[i] = SPARK THEN is_spark_related(rd[i]) ELSE is_related(rd[i])

StatusObserved == last.op \in {"start", "config_changed", "relation_changed"}

MissingRelationMessages ==
    {"Missing relation with: " \o name :
        name \in {"OpenSearch", "Postgresql", "Mysql", "Mongodb", "MongoDB", "Kafka", "Spark"}}

IsMissingRelation(status) == status.status = "blocked" /\ status.message \in MissingRelationMessages
IsInvalidConfig(status, option) ==
    status.status = "blocked" /\ status.message = "Invalid config(s): '" \o option \o "'"
IsMissingConfig(status, option) ==
    status.status = "blocked" /\ status.message = "Missing config(s): '" \o option \o "'"
IsConfigSignal(status) ==
    \E option \in DOMAIN NoConfig : IsInvalidConfig(status, option) \/ IsMissingConfig(status, option)

Count(statuses, P(_)) == Len(SelectSeq(statuses, P))

\* C16: per backend, an option that is set but invalid gives exactly one
\* "Invalid config(s)" signal naming it and no "Missing relation" signal, with
\* or without a relation; a valid config without an active relation gives
\* exactly one "Missing relation" signal and no config signal; a valid config
\* with an active relation gives no blocking signal.
C16_StatusGate ==
    StatusObserved =>
        \A i \in 1..Len(Backends) :
            /\ (config[Options[i]] # None /\ ErrorsOf(i, config) # <<>>) =>
                  /\ Count(last.backends[i], LAMBDA st : IsInvalidConfig(st, Options[i])) = 1
                  /\ Count(last.backends[i], IsMissingRelation) = 0
            /\ (ErrorsOf(i, config) = <<>> /\ ~RelationActive(i, reldata)) =>
                  /\ Count(last.backends[i], IsMissingRelation) = 1
                  /\ Count(last.backends[i], IsConfigSignal) = 0
            /\ (ErrorsOf(i, config) = <<>> /\ RelationActive(i, reldata)) =>
                  \A st \in Range(last.backends[i]) : st.status # "blocked"

---------------------------------------------------------------------------
(* C17 *)

\* a lowercase RFC 1123 label
IsLabel(p) ==
    /\ p # <<>>
    /\ \A i \in 1..Len(p) : p[i] \in LOWER_ALNUM \cup {"-"}
    /\ Head(p) # "-"
    /\ p[Len(p)] # "-"

\* the signal the profile calls for
ProfileSignal(profile) ==
    IF profile = None
    THEN <<[status |-> "blocked", message |-> "Missing config(s): 'profile'",
            action |-> "Set config(s): 'profile'"]>>
    ELSE IF profile[1] # <<"*">> /\ ~IsLabel(profile[1])
    THEN <<[status |-> "blocked", message |-> "Invalid config(s): 'profile'",
            action |-> "Fix invalid config(s): 'profile'"]>>
    ELSE <<[status |-> "active", message |-> "", action |-> ""]>>

\* C17: after every start or config-changed event the status of the profile is
\* the one its current value calls for, whatever the earlier values were:
\* unset gives "Missing config(s): 'profile'", a value that is neither "*" nor a
\* lowercase RFC 1123 label gives "Invalid config(s): 'profile'", any other
\* value gives active.
C17_ProfileSignalFromCurrentValue ==
    [](last.op \in {"start", "config_changed"} =>
          last.trace[Len(last.trace)] = ProfileSignal(config["profile"]))

\* valid, invalid, unset, valid: active, invalid, missing, active
C17_Witness ==
    /\ last.op = "config_changed"
    /\ Len(last.trace) = 4
    /\ last.trace[1] = <<ACTIVE_IDLE>>
    /\ last.trace[2][1].message = "Invalid config(s): 'profile'"
    /\ last.trace[3][1].message = "Missing config(s): 'profile'"
    /\ last.trace[4] = <<ACTIVE_IDLE>>
    /\ config["profile"] = Some(<<"a">>)

---------------------------------------------------------------------------
(* C18 *)

\* the statuses the application collects from the manager of a backend
AppStatusesOf(backend) ==
    {st \in UNION {Range(entry.statuses) : entry \in Range(last.app)} :
        \E entry \in Range(last.app) : entry.component = backend /\ st \in Range(entry.statuses)}

\* C18: for each of the six backends, when a relation to it exists and its
\* required option is unset, the application collects the blocked status
\* "Missing config(s): '<option>'" from its manager and no "Missing relation"
\* status.
C18_MissingConfigWhenRelated ==
    StatusObserved =>
        \A i \in 1..Len(Backends) :
            (reldata[i] # None /\ config[Options[i]] = None) =>
                /\ \E st \in AppStatusesOf(Backends[i]) : IsMissingConfig(st, Options[i])
                /\ \A st \in AppStatusesOf(Backends[i]) : ~IsMissingRelation(st)
                /\ \A st \in Range(last.backends[i]) : ~IsMissingRelation(st)

C18_Witness ==
    /\ StatusObserved
    /\ reldata[4] # None
    /\ reldata[6] # None
    /\ config["mongodb-database-name"] = None
    /\ config["spark-service-account"] = None
    /\ \E st \in AppStatusesOf(MONGODB) : st.message = "Missing config(s): 'mongodb-database-name'"
    /\ \E st \in AppStatusesOf(SPARK) : st.message = "Missing config(s): 'spark-service-account'"

---------------------------------------------------------------------------
(* C19 *)

\* the name under which each backend is reported, in the order of Backends
BackendNames == <<"OpenSearch", "Postgresql", "Mysql", "MongoDB", "Kafka", "Spark">>

NamesBackend(status, i) ==
    status.status = "blocked" /\ status.message = "Missing relation with: " \o BackendNames[i]

\* C19: a backend whose option is set to a valid value and that has no relation
\* sharing its credentials reports "Missing relation with: <its own name>", and
\* no backend reports the name of another backend.
C19_MissingRelationNamesBackend ==
    StatusObserved =>
        \A i \in 1..Len(Backends) :
            /\ (ErrorsOf(i, config) = <<>> /\ ~RelationActive(i, reldata)) =>
                  \E st \in Range(last.backends[i]) : NamesBackend(st, i)
            /\ \A st \in Range(last.backends[i]) :
                  \A j \in 1..Len(Backends) : NamesBackend(st, j) => j = i

---------------------------------------------------------------------------
(* C20 *)

\* the results of the managers with every failed one replaced by the empty batch
Isolated(generated) ==
    [i \in 1..Len(generated) |->
        IF generated[i].raised THEN Outcome(FALSE, EmptyManifests, <<>>) ELSE generated[i]]

\* C20: a pass in which the rendering of a backend fails still completes; the
\* failed backend contributes the empty batch and the manifests of the other
\* backends are sent to their channels.
C20_ErrorIsolation ==
    (last.op = "_on_manifests_relation_change" /\ leader
     /\ is_manifests_provider_related(relations)) =>
        \A generated \in {GenerateAll(config, relations, reldata)} :
            /\ ~last.raised
            /\ last.sent = SumManifests(EmptyManifests, Isolated(generated))
            /\ channels = send_manifests(NoChannels, last.sent)

---------------------------------------------------------------------------
(* C21 *)

NonEmptyField(data, key) == Has(data, key) /\ Val(data, key) # <<>>

\* the relation data makes the backend usable
Usable(i, data) ==
    /\ data # None
    /\ IF Backends[i] = SPARK
       THEN /\ data[1].service_account # <<>>
            /\ data[1].resource_manifest # None
            /\ data[1].spark_properties # <<>>
       ELSE /\ NonEmptyField(data[1], "username")
            /\ NonEmptyField(data[1], "password")
            /\ NonEmptyField(data[1], ResourceField(Backends[i]))

\* C21: generate_manifests of a backend returns the all-empty batch unless the
\* relation data holds a non-empty username, a non-empty password and the
\* resource the backend reports (for spark: non-empty service-account,
\* resource-manifest and spark-properties).
C21_BatchOnlyWhenUsable ==
    (last.op = "generate_manifests") =>
        (~Usable(last.backend, reldata[last.backend]) =>
            /\ ~last.out.raised
            /\ last.out.batch = EmptyManifests)

C21_Witness ==
    /\ last.op = "generate_manifests"
    /\ Backends[last.backend] = KAFKA
    /\ reldata[last.backend] # None
    /\ NonEmptyField(reldata[last.backend][1], "username")
    /\ NonEmptyField(reldata[last.backend][1], "password")
    /\ ~NonEmptyField(reldata[last.backend][1], "topic")
    /\ relations = {SECRETS_DISPATCHER_RELATION_NAME}
    /\ config.profile = Some(<<"a">>)
    /\ last.out.batch = EmptyManifests

---------------------------------------------------------------------------
(* C22 *)

\* C22: on a unit that is not the leader no event writes anything: no request
\* data is written to a backend relation and no manifests are written to a
\* dispatcher relation.
C22_NonLeaderWritesNothing ==
    ~leader =>
        /\ requests = NoRequests
        /\ channels = NoChannels
        /\ (last.op # "init" => last.passes = 0)

\* a non-leader has handled the credentials of a configured kafka, with a
\* secrets dispatcher relation and a profile: the leader would have written
C22_Witness ==
    /\ ~leader
    /\ last.op = "credentials"
    /\ config["profile"] = Some(<<"a">>)
    /\ config["kafka-topic-name"] = Some(<<"a">>)
    /\ reldata[5] = Some(Credentials(KAFKA))
    /\ relations = {SECRETS_DISPATCHER_RELATION_NAME}
    /\ requests[5] = None
    /\ channels[SECRETS_DISPATCHER_RELATION_NAME] = <<>>

---------------------------------------------------------------------------
(* C30 *)

\* the relation of Backends[i] reports the resource it created
Reports(i, rd) ==
    /\ rd[i] # None
    /\ IF Backends[i] = SPARK
       THEN rd[i][1].service_account # <<>>
       ELSE NonEmptyField(rd[i][1], ResourceField(Backends[i]))

\* C30: on the leader a config-changed or credentials event writes the request
\* of a backend only if the config of the backend validates and its relation
\* does not report the resource yet; the request of a relation that reports
\* the resource is left as it is; and the event ends with one reconciliation
\* pass.
C30_RequestsUntilResourceReported ==
    [][(leader /\ last'.op \in {"config_changed", "credentials"}) =>
          /\ \A i \in 1..Len(Backends) :
                (i \in last'.routed \/ requests'[i] # requests[i]) =>
                    (ErrorsOf(i, config') = <<>> /\ ~Reports(i, reldata'))
          /\ \A i \in 1..Len(Backends) : Reports(i, reldata') => requests'[i] = requests[i]
          /\ last'.passes = 1]_vars

\* kafka reports the topic it created for "a"; the topic option is "b" by now
\* and the request still asks for "a"
C30_Witness ==
    /\ leader
    /\ last.op = "config_changed"
    /\ reldata[5] = Some(Credentials(KAFKA))
    /\ config["kafka-topic-name"] = Some(<<"b">>)
    /\ requests[5] # None
    /\ Val(requests[5][1], "topic") = Some(<<"a">>)

---------------------------------------------------------------------------
(* C23 *)

\* C23: after reconcile_database_manifests the caller's credential map has the
\* keys and values it had before the call: data is still there, tls-ca is
\* neither removed nor rewritten and no ca_cert_path is added, whatever the
\* dispatcher relations.
C23_CallerMapUntouched ==
    DbCall => last.out.creds = last.creds

---------------------------------------------------------------------------
(* C24 *)

\* C24: a credential map whose tls-ca is "disabled" renders to the batch that
\* the same map without the tls-ca key renders to, for every backend and every
\* set of dispatcher relations.
C24_DisabledAsAbsent ==
    (DbCall /\ TlsDisabled(last.creds)) =>
        \A absent \in {reconcile_database_manifests(config, relations, Pop(last.creds, "tls-ca"),
                                                    last.database_name)} :
            /\ last.out.raised = absent.raised
            /\ last.out.batch = absent.batch

---------------------------------------------------------------------------
(* C25 *)

\* the alternatives of an env var that are populated: a non-empty literal
\* value, a secret-key reference, a field reference
Populated(env_var) ==
    {alternative \in {"value", "secret", "fieldref"} :
        CASE alternative = "value" -> Truthy(env_var.value)
          [] alternative = "secret" -> env_var.secret # None
          [] alternative = "fieldref" -> env_var.fieldref # None}

\* C25: the construction of a PodDefaultEnvVar is accepted exactly when one of
\* its alternatives is populated; with none, and with more than one, the
\* validator rejects it.
C25_ExactlyOneAlternative ==
    (last.op = "PodDefaultEnvVar") =>
        (last.accepted <=> Cardinality(Populated(last.env_var)) = 1)

---------------------------------------------------------------------------
(* C26 *)

\* C26: with a profile set, reconcile_database_manifests returns a batch and
\* does not raise, for every credential map (empty-valued fields included) and
\* every set of dispatcher relations.
C26_DatabaseRenderNeverRaises ==
    (DbCall /\ ProfileSet) => ~last.out.raised

---------------------------------------------------------------------------
(* C27 *)

\* the documents of a bundle that name a kind
WithKind(docs) == SelectSeq(docs, LAMBDA doc : "kind" \in DOMAIN doc)

\* C27: when a parseable bundle holds a document without a kind,
\* reconcile_spark_manifests does not raise, the document is in no channel, and
\* the documents that name a kind are partitioned into the Secret,
\* ServiceAccount, Role and RoleBinding channels.
C27_KindlessDocumentSkipped ==
    (/\ SparkCall /\ ProfileSet /\ last.raw_manifests.parseable
     /\ last.service_account # <<>>
     /\ WithKind(last.raw_manifests.docs) # last.raw_manifests.docs) =>
        /\ ~last.out.raised
        /\ \E docs \in {WithKind(last.raw_manifests.docs)} :
              /\ Bucket(last.out.batch.secrets, SECRETS_DISPATCHER_RELATION_NAME, docs, "Secret")
              /\ Bucket(last.out.batch.serviceaccounts,
                        SERVICE_ACCOUNTS_DISPATCHER_RELATION_NAME, docs, "ServiceAccount")
              /\ Bucket(last.out.batch.roles, ROLES_DISPATCHER_RELATION_NAME, docs, "Role")
              /\ Bucket(last.out.batch.role_bindings, ROLEBINDINGS_DISPATCHER_RELATION_NAME,
                        docs, "RoleBinding")

---------------------------------------------------------------------------
(* C28 *)

\* the secret keys that the env vars of a PodDefault reference
ReferencedKeys(poddefault) ==
    {poddefault.env_vars[i].secret[1].secret_key :
        i \in {j \in 1..Len(poddefault.env_vars) : poddefault.env_vars[j].secret # None}}

\* the Secrets that the env vars of a PodDefault reference
ReferencedSecrets(poddefault) ==
    {poddefault.env_vars[i].secret[1].secret_name :
        i \in {j \in 1..Len(poddefault.env_vars) : poddefault.env_vars[j].secret # None}}

\* C28: when a call of reconcile_database_manifests produces both the
\* credentials Secret and a PodDefault, the secret keys referenced by the
\* PodDefault's env vars are exactly the data keys of the credentials Secret,
\* and every reference names that Secret, with or without a TLS Secret.
C28_ReferencesMatchSecret ==
    DbCall =>
        \A secret \in CredentialSecrets(last.out.batch, last.database_name) :
            \A poddefault \in Range(last.out.batch.poddefaults) :
                /\ ReferencedKeys(poddefault) = Keys(secret.data)
                /\ ReferencedSecrets(poddefault) \subseteq
                        {K8S_DATABASE_SECRET_NAME[last.database_name]}

C28_Witness ==
    /\ DbCall
    /\ TlsRequested(last.creds)
    /\ Len(last.out.batch.secrets) = 2
    /\ Len(last.out.batch.poddefaults) = 1
    /\ \E secret \in CredentialSecrets(last.out.batch, last.database_name) :
          /\ Len(secret.data) = 2
          /\ ReferencedKeys(last.out.batch.poddefaults[1]) = Keys(secret.data)

---------------------------------------------------------------------------
(* C29 *)

\* C29: in every event, a dispatcher channel for which the reconciliation pass
\* yields an empty sequence is not written, so it keeps the manifests an earlier
\* pass sent; a channel that changes holds the non-empty sequence of the pass.
C29_EmptyChannelNotWritten ==
    [][\A pass \in {_on_manifests_relation_change(relations', GenerateAll(config', relations', reldata'),
                                                  leader', channels)} :
          \A relation \in Dispatchers :
              /\ (Len(ChannelOf(pass.sent, relation)) = 0 =>
                      channels'[relation] = channels[relation])
              /\ (channels'[relation] # channels[relation] =>
                      channels'[relation] = ChannelOf(pass.sent, relation))]_vars

\* a pass ran with the profile unset: it yields nothing for the secrets channel,
\* which still holds what an earlier pass sent
C29_Witness ==
    /\ leader
    /\ last.op = "config_changed"
    /\ last.passes = 1
    /\ ~last.raised
    /\ config["profile"] = None
    /\ SECRETS_DISPATCHER_RELATION_NAME \in relations
    /\ channels[SECRETS_DISPATCHER_RELATION_NAME] # <<>>

====
